---- MODULE Spec2Model ----
(***************************************************************************)
(* The intercepting proxy of benpariswork/paps: the connection dispatcher  *)
(* (ProxyServer), its worker pool, the per-connection protocol handlers    *)
(* (BaseProtocolHandler.handle_connection and the HTTP / FTP / DNS /       *)
(* Telnet relay loops) and the Telnet command tokenizer.                   *)
(***************************************************************************)
EXTENDS Integers, Sequences, FiniteSets, TLC

(***************************************************************************)
(* Bounds of the model.                                                    *)
(***************************************************************************)
\* how many client connections the environment opens in one run
NumConns == 2
\* the configured server.max_connections (pool size) of the run
max_connections == 1

Conns == 1..NumConns
\* the longest byte stream given to the Telnet tokenizer
MaxStream == 5

\* the protocols a handler is registered for
Protocols == {"http", "ftp", "dns", "telnet"}
\* the configurations of a run: the protocols that protocol_configs enables (with a port)
EnabledSets == {{"http"}, {"telnet"}, {"ftp", "dns"}}
\* the order in which shutdown() walks protocol_servers
ProtocolOrder == <<"http", "ftp", "dns", "telnet">>

\* the two sockets of a session, in the order _proxy_data lists them for select
ClientSock == "client"
ServerSock == "server"
SockOrder == <<ClientSock, ServerSock>>

C2S == "client_to_server"
S2C == "server_to_client"

NoPacket == [dir |-> "none", paused |-> FALSE]

VARIABLES
  \* ---- ProxyServer
  enabled,          \* the protocols enabled in protocol_configs
  server_running,   \* ProxyServer.running
  mainpc,           \* main thread: "init" | "serving" | "closing" | "pool" | "stopped"
  sdIdx,            \* shutdown(): index into ProtocolOrder of the next socket to close
  lsock,            \* protocol_servers[p]['socket']: "none" | "open" | "closed"
  lpc,              \* listener thread of p: "idle" | "check" | "accept" | "submit" | "exited"
  lconn,            \* the connection a listener has accepted and not yet submitted (0: none)
  nextConn,         \* the next connection the environment will open
  \* ---- ThreadPoolExecutor
  queue,            \* submitted work items not yet started
  active,           \* connections whose handle_connection is executing
  pool_shutdown,    \* the executor's shutdown flag
  \* ---- inspection configuration
  pause_by_default,
  \* ---- one handler per connection
  pc,               \* position of the handler
  proto,            \* protocol of the handler ("none" before accept)
  running,          \* handler.running
  csock,            \* client socket: "none" | "open" | "closed"
  ssock,            \* handler.server_socket: "none" | "open" | "closed"
  ccloses,          \* close() calls made on the client socket
  scloses,          \* close() calls made on the server socket
  cleanups,         \* _cleanup() calls made
  skip,             \* HTTP: skip_client_first
  todo,             \* the sockets of select's readable list still to be handled
  packet,           \* the packet captured from the last read, not yet forwarded
  \* ---- Telnet tokenizer harness
  tstream,          \* the byte stream a Telnet peer sends
  tcut,             \* where the stream is split into two reads
  tbuf,             \* client_buffer / server_buffer
  temit,            \* the chunks emitted so far, one per read
  treads,           \* reads done
  \* ---- packet capture harness: one handler, one read
  hproto,           \* get_protocol_name() of the handler
  inspection_mode,  \* handler.inspection_mode
  hdir,             \* the direction of the read
  hdata,            \* the bytes read
  hpc,              \* "idle" | "call" | "parsed" | "captured" | "logged" | "sent" | "raised"
  hmeta,            \* what parse_packet returned to a direct caller
  hraised,          \* the exception that reached the caller ("none": none)
  hpacket,          \* the Packet create_packet returned
  hparses,          \* parse_packet calls made by create_packet
  \* ---- proxy.packet.Packet operations harness
  upacket,          \* a proxy.packet.Packet
  uret,             \* the value the last operation returned ("none": no call yet)
  ucall,            \* the last operation called on the packet, with its argument
  \* ---- HTTP session harness: one HTTPProtocolHandler and its two peers
  xreq,             \* the bytes the client sends over the session
  xclosed,          \* the client closes its end after the last byte
  xoff,             \* how many of them the handler has received
  header_data,      \* _setup_server_connection: the bytes buffered so far
  initial_request,  \* self.initial_request (Unset before it is assigned)
  target_host,      \* self.target_host
  target_port,      \* self.target_port
  xssock,           \* self.server_socket: "none" | "created" | "connected" | "closed"
  xcsock,           \* the client socket: "open" | "closed"
  up_sent,          \* the bytes sent to the upstream server so far
  cl_sent,          \* the bytes sent to the client so far
  skip_client_first, \* the local flag of _proxy_data
  xrunning,         \* self.running
  xtodo,            \* the readable sockets of this pass still to be handled
  xdata,            \* the chunk read and not yet sent
  xresp,            \* the chunks the upstream server has sent so far
  xfail,            \* why the session failed ("none": it has not)
  xlost,            \* a sendall of the relay loop timed out before all was sent
  xpc,              \* the position of the handler
  \* ---- FTP session harness: the relay loop of one FTPProtocolHandler
  fpc,              \* "idle" | "select" | "data_check" | "cleanup" | "done"
  frunning,         \* self.running
  freads,           \* reads of the control connection done
  fdata,            \* the bytes of the last read
  fdir,             \* the direction of the last read ("none": no read yet)
  passive_mode,     \* self.passive_mode
  data_connection,  \* self.data_connection (NoDataConnection: None)
  fconnects,        \* the addresses data sockets were asked to connect to
  fdsocks,          \* every data socket connected during the session: "open" | "closed"
  fup,              \* the chunks sent to the FTP server
  fdown,            \* the chunks sent to the client
  fpackets,         \* the packets captured, as <<direction, data>>
  fpending,         \* the bytes the server has sent on the data connection, not yet read
  ftodo,            \* the readable sockets of this pass still to be handled
  \* ---- DNS relay harness: the relay loop of one DNSProtocolHandler
  dpc,              \* "idle" | "loop" | "cleanup" | "done"
  dmode,            \* handler.inspection_mode
  ddatagram,        \* the last datagram received from the client: its number, bytes and address
  dreply,           \* what the resolver did for the last datagram forwarded
  dsent,            \* the datagrams sent to the resolver
  dback,            \* the replies sent to clients, with the address they were sent to
  dwaits,           \* recvfrom calls on the client socket that timed out
  \* ---- persistence harness: one proxy.packet.Packet and the storage directory
  spacket,          \* the packet in memory
  sjson,            \* the '.json' files of the directory, by path
  sbin,             \* the '.bin' files of the directory, by path
  spath,            \* what the last save() returned ("none": no call yet)
  sloaded,          \* what the last load() returned ("none": no call yet)
  \* ---- scanning harness: one loop over one byte string, an iteration per step
  zloop,            \* the loop being run
  zdata,            \* the bytes scanned
  zindex,           \* the scan index (i / offset)
  zdone,            \* the loop has been left
  zsteps            \* iterations done

serverVars == <<enabled, server_running, mainpc, sdIdx, lsock, lpc, lconn, nextConn>>
poolVars == <<queue, active, pool_shutdown>>
sessVars == <<pc, proto, running, csock, ssock, ccloses, scloses, cleanups, skip, todo, packet>>
telnetVars == <<tstream, tcut, tbuf, temit, treads>>
captureVars == <<hproto, inspection_mode, hdir, hdata, hpc, hmeta, hraised, hpacket, hparses>>
packetVars == <<upacket, uret, ucall>>
httpVars == <<xreq, xclosed, xoff, header_data, initial_request, target_host, target_port,
              xssock, xcsock, up_sent, cl_sent, skip_client_first, xrunning, xtodo, xdata,
              xresp, xfail, xlost, xpc>>
ftpVars == <<fpc, frunning, freads, fdata, fdir, passive_mode, data_connection, fconnects, fdsocks,
             fup, fdown, fpackets, fpending, ftodo>>
dnsVars == <<dpc, dmode, ddatagram, dreply, dsent, dback, dwaits>>
storeVars == <<spacket, sjson, sbin, spath, sloaded>>
scanVars == <<zloop, zdata, zindex, zdone, zsteps>>
relayVars == <<ftpVars, dnsVars, storeVars, scanVars>>
harnessVars == <<telnetVars, captureVars, packetVars, httpVars, relayVars>>
vars == <<serverVars, poolVars, pause_by_default, sessVars, harnessVars>>

(***************************************************************************)
(* ProxyServer: start(), shutdown() and the listener loops.                *)
(***************************************************************************)

\* start(): running = True, _setup_protocol_servers(), every listener thread started
Start ==
  /\ mainpc = "init"
  /\ server_running' = TRUE
  /\ lsock' = [p \in Protocols |-> IF p \in enabled THEN "open" ELSE "none"]
  /\ lpc' = [p \in Protocols |-> IF p \in enabled THEN "check" ELSE "idle"]
  /\ mainpc' = "serving"
  /\ UNCHANGED <<enabled, sdIdx, lconn, nextConn, poolVars, pause_by_default, sessVars, harnessVars>>

\* faulty variant: shutdown() closes no listening socket
ServerOrderNone == <<>>

\* protocol_servers in the order shutdown() walks it
ServerOrder == SelectSeq(ProtocolOrder, LAMBDA p : p \in enabled)

\* shutdown(), first statement: self.running = False
ShutdownCall ==
  /\ mainpc = "serving"
  /\ server_running' = FALSE
  /\ mainpc' = "closing"
  /\ sdIdx' = 1
  /\ UNCHANGED <<enabled, lsock, lpc, lconn, nextConn, poolVars, pause_by_default, sessVars, harnessVars>>

\* shutdown(), the loop over protocol_servers: one socket closed per iteration
\* (an error of close() is caught and logged)
ShutdownClose ==
  /\ mainpc = "closing"
  /\ sdIdx <= Len(ServerOrder)
  /\ lsock' = [lsock EXCEPT ![ServerOrder[sdIdx]] = "closed"]
  /\ sdIdx' = sdIdx + 1
  /\ UNCHANGED <<enabled, server_running, mainpc, lpc, lconn, nextConn, poolVars,
                 pause_by_default, sessVars, harnessVars>>

\* shutdown(), last statement: thread_pool.shutdown(wait=False); shutdown() returns
ShutdownPool ==
  /\ mainpc = "closing"
  /\ sdIdx > Len(ServerOrder)
  /\ pool_shutdown' = TRUE
  /\ mainpc' = "stopped"
  /\ UNCHANGED <<enabled, server_running, sdIdx, lsock, lpc, lconn, nextConn, queue, active,
                 pause_by_default, sessVars, harnessVars>>

\* _protocol_server_loop: while self.running
ListenerCheck(p) ==
  /\ lpc[p] = "check"
  /\ lpc' = [lpc EXCEPT ![p] = IF server_running THEN "accept" ELSE "exited"]
  /\ UNCHANGED <<enabled, server_running, mainpc, sdIdx, lsock, lconn, nextConn, poolVars,
                 pause_by_default, sessVars, harnessVars>>

\* server_socket.accept() returns a client connection; the handler is constructed
\* (BaseProtocolHandler.__init__: server_socket = None, running = False)
AcceptConn(p) ==
  /\ lpc[p] = "accept"
  /\ lsock[p] = "open"
  /\ nextConn <= NumConns
  /\ lconn' = [lconn EXCEPT ![p] = nextConn]
  /\ nextConn' = nextConn + 1
  /\ lpc' = [lpc EXCEPT ![p] = "submit"]
  /\ pc' = [pc EXCEPT ![nextConn] = "accepted"]
  /\ proto' = [proto EXCEPT ![nextConn] = p]
  /\ csock' = [csock EXCEPT ![nextConn] = "open"]
  /\ UNCHANGED <<enabled, server_running, mainpc, sdIdx, lsock, poolVars, pause_by_default,
                 running, ssock, ccloses, scloses, cleanups, skip, todo, packet,
                 harnessVars>>

\* accept() times out after 1.0 s: except socket.timeout: continue
AcceptTimeout(p) ==
  /\ lpc[p] = "accept"
  /\ lsock[p] = "open"
  /\ lpc' = [lpc EXCEPT ![p] = "check"]
  /\ UNCHANGED <<enabled, server_running, mainpc, sdIdx, lsock, lconn, nextConn, poolVars,
                 pause_by_default, sessVars, harnessVars>>

\* accept() raises (the socket was closed by shutdown()): except Exception, loop again
AcceptError(p) ==
  /\ lpc[p] = "accept"
  /\ lsock[p] = "closed"
  /\ lpc' = [lpc EXCEPT ![p] = "check"]
  /\ UNCHANGED <<enabled, server_running, mainpc, sdIdx, lsock, lconn, nextConn, poolVars,
                 pause_by_default, sessVars, harnessVars>>

\* self.thread_pool.submit(handler.handle_connection): the work item goes on the
\* executor's queue and submit returns at once, whatever the number of busy workers;
\* after shutdown() the executor raises RuntimeError, which the loop's
\* except Exception swallows
Submit(p) ==
  /\ lpc[p] = "submit"
  /\ IF pool_shutdown
       THEN /\ pc' = [pc EXCEPT ![lconn[p]] = "unsubmitted"]
            /\ queue' = queue
       ELSE /\ pc' = [pc EXCEPT ![lconn[p]] = "queued"]
            /\ queue' = Append(queue, lconn[p])
  /\ lconn' = [lconn EXCEPT ![p] = 0]
  /\ lpc' = [lpc EXCEPT ![p] = "check"]
  /\ UNCHANGED <<enabled, server_running, mainpc, sdIdx, lsock, nextConn, active, pool_shutdown,
                 pause_by_default, proto, running, csock, ssock, ccloses, scloses,
                 cleanups, skip, todo, packet, harnessVars>>

(***************************************************************************)
(* The worker pool: ThreadPoolExecutor(max_workers = max_connections).     *)
(***************************************************************************)

\* faulty variant: the pool starts a worker for every queued item
WorkerAlwaysFree == TRUE

\* a worker thread exists or may be created for the next queued item
WorkerFree == Cardinality(active) < max_connections

\* a worker takes the oldest queued work item and calls handle_connection
PoolStart ==
  /\ queue # <<>>
  /\ WorkerFree
  /\ active' = active \cup {Head(queue)}
  /\ queue' = Tail(queue)
  /\ pc' = [pc EXCEPT ![Head(queue)] = "start"]
  /\ UNCHANGED <<serverVars, pool_shutdown, pause_by_default, proto, running, csock,
                 ssock, ccloses, scloses, cleanups, skip, todo, packet, harnessVars>>

(***************************************************************************)
(* BaseProtocolHandler.handle_connection and the relay loops.              *)
(***************************************************************************)

\* handle_connection: self.running = True
HandleStart(c) ==
  /\ c \in active
  /\ pc[c] = "start"
  /\ running' = [running EXCEPT ![c] = TRUE]
  /\ pc' = [pc EXCEPT ![c] = "setup"]
  /\ UNCHANGED <<serverVars, poolVars, pause_by_default, proto, csock, ssock, ccloses,
                 scloses, cleanups, skip, todo, packet, harnessVars>>

\* faulty variant: handle_connection without its finally clause
AfterExceptionNoFinally == "done"

\* handle_connection: where control goes when _setup_server_connection or
\* _proxy_data raises (except Exception: log; finally: self._cleanup())
AfterException == "cleanup"

\* _setup_server_connection raises before self.server_socket is assigned (HTTP: the
\* client closed before the headers were complete, headers too large, no target;
\* any protocol: socket.socket() fails)
SetupFailEarly(c) ==
  /\ c \in active
  /\ pc[c] = "setup"
  /\ pc' = [pc EXCEPT ![c] = AfterException]
  /\ UNCHANGED <<serverVars, poolVars, pause_by_default, proto, running, csock, ssock,
                 ccloses, scloses, cleanups, skip, todo, packet, harnessVars>>

\* _setup_server_connection raises after self.server_socket was created: connect()
\* fails, or the first exchange fails (HTTP: sendall of the 200 reply or of the initial
\* request; FTP: recv / sendall of the welcome banner).  DNS only creates a UDP socket.
SetupFailConnect(c) ==
  /\ c \in active
  /\ pc[c] = "setup"
  /\ proto[c] # "dns"
  /\ ssock' = [ssock EXCEPT ![c] = "open"]
  /\ pc' = [pc EXCEPT ![c] = AfterException]
  /\ UNCHANGED <<serverVars, poolVars, pause_by_default, proto, running, csock,
                 ccloses, scloses, cleanups, skip, todo, packet, harnessVars>>

\* _setup_server_connection returns; _proxy_data starts.  HTTP: skip_client_first is
\* true for a plain request (plain = TRUE) and false for CONNECT
SetupOk(c, plain) ==
  /\ c \in active
  /\ pc[c] = "setup"
  /\ ssock' = [ssock EXCEPT ![c] = "open"]
  /\ skip' = [skip EXCEPT ![c] = (proto[c] = "http" /\ plain)]
  /\ pc' = [pc EXCEPT ![c] = "loop"]
  /\ UNCHANGED <<serverVars, poolVars, pause_by_default, proto, running, csock,
                 ccloses, scloses, cleanups, todo, packet, harnessVars>>

\* the loop condition of every _proxy_data: while self.running
LoopContinues(c) == running[c]

LoopCheck(c) ==
  /\ c \in active
  /\ pc[c] = "loop"
  /\ pc' = [pc EXCEPT ![c] = IF LoopContinues(c) THEN "select" ELSE "cleanup"]
  /\ UNCHANGED <<serverVars, poolVars, pause_by_default, proto, running, csock, ssock,
                 ccloses, scloses, cleanups, skip, todo, packet, harnessVars>>

\* the non-empty readable lists select can return, in the order of `sockets`
ReadableLists == {<<ClientSock>>, <<ServerSock>>, <<ClientSock, ServerSock>>}

\* HTTP, end of one pass of the while body: if skip_client_first: skip_client_first = False
SkipAfterPass(c) == FALSE

\* select returns a non-empty readable list (HTTP, FTP, Telnet)
SelectReady(c, r) ==
  /\ c \in active
  /\ pc[c] = "select"
  /\ proto[c] # "dns"
  /\ todo' = [todo EXCEPT ![c] = r]
  /\ pc' = [pc EXCEPT ![c] = "recv"]
  /\ UNCHANGED <<serverVars, poolVars, pause_by_default, proto, running, csock, ssock,
                 ccloses, scloses, cleanups, skip, packet, harnessVars>>

\* where control goes after a readiness-wait or read timeout (an empty readable list
\* ends the pass; except socket.timeout: continue)
AfterTimeout == "loop"

\* select times out: nothing is readable, the for loop has no iteration
SelectTimeout(c) ==
  /\ c \in active
  /\ pc[c] = "select"
  /\ proto[c] # "dns"
  /\ skip' = [skip EXCEPT ![c] = SkipAfterPass(c)]
  /\ pc' = [pc EXCEPT ![c] = AfterTimeout]
  /\ UNCHANGED <<serverVars, poolVars, pause_by_default, proto, running, csock, ssock,
                 ccloses, scloses, cleanups, todo, packet, harnessVars>>

\* select reports an exceptional condition: break
SelectExceptional(c) ==
  /\ c \in active
  /\ pc[c] = "select"
  /\ proto[c] # "dns"
  /\ pc' = [pc EXCEPT ![c] = "cleanup"]
  /\ UNCHANGED <<serverVars, poolVars, pause_by_default, proto, running, csock, ssock,
                 ccloses, scloses, cleanups, skip, todo, packet, harnessVars>>

\* the socket the for loop is handling
Cur(c) == Head(todo[c])

\* HTTP: `if sock is self.client_socket and not skip_client_first` fails for the client
\* socket while skip_client_first is set, and the elif does not match it either
Skipped(c) == proto[c] = "http" /\ Cur(c) = ClientSock /\ skip[c]

\* the for loop goes on to the next readable socket, or the pass ends
NextSock(c) ==
  /\ todo' = [todo EXCEPT ![c] = Tail(todo[c])]
  /\ IF Tail(todo[c]) = <<>>
       THEN /\ pc' = [pc EXCEPT ![c] = "loop"]
            /\ skip' = [skip EXCEPT ![c] = SkipAfterPass(c)]
       ELSE /\ pc' = [pc EXCEPT ![c] = "recv"]
            /\ skip' = skip

\* HTTP: the client socket is readable on the pass in which skip_client_first is set:
\* nothing is read from it
RecvSkip(c) ==
  /\ c \in active
  /\ pc[c] = "recv"
  /\ Skipped(c)
  /\ NextSock(c)
  /\ UNCHANGED <<serverVars, poolVars, pause_by_default, proto, running, csock, ssock,
                 ccloses, scloses, cleanups, packet, harnessVars>>

\* create_packet: packet.paused = self.pause_by_default
CreatePacket(dir) == [dir |-> dir, paused |-> pause_by_default]

\* recv returns data; should_inspect_packet is true; the packet is created and logged
RecvData(c) ==
  /\ c \in active
  /\ pc[c] = "recv"
  /\ ~Skipped(c)
  /\ packet' = [packet EXCEPT ![c] = CreatePacket(IF Cur(c) = ClientSock THEN C2S ELSE S2C)]
  /\ pc' = [pc EXCEPT ![c] = "send"]
  /\ UNCHANGED <<serverVars, poolVars, pause_by_default, proto, running, csock, ssock,
                 ccloses, scloses, cleanups, skip, todo, harnessVars>>

\* Telnet: recv returns data, but _process_telnet_commands emits nothing (the bytes
\* are kept in the buffer): `if processed_data` fails, nothing is captured or sent
RecvHeld(c) ==
  /\ c \in active
  /\ pc[c] = "recv"
  /\ proto[c] = "telnet"
  /\ NextSock(c)
  /\ UNCHANGED <<serverVars, poolVars, pause_by_default, proto, running, csock, ssock,
                 ccloses, scloses, cleanups, packet, harnessVars>>

\* faulty variant: EOF only breaks out of the for loop
RunningAfterEOFKept == TRUE

\* `if not data: self.running = False; break`
RunningAfterEOF == FALSE

\* recv returns b'' (clean EOF): running = False, break out of the for loop; the while
\* condition is evaluated next
RecvEOF(c) ==
  /\ c \in active
  /\ pc[c] = "recv"
  /\ ~Skipped(c)
  /\ running' = [running EXCEPT ![c] = RunningAfterEOF]
  /\ todo' = [todo EXCEPT ![c] = <<>>]
  /\ skip' = [skip EXCEPT ![c] = SkipAfterPass(c)]
  /\ pc' = [pc EXCEPT ![c] = "loop"]
  /\ UNCHANGED <<serverVars, poolVars, pause_by_default, proto, csock, ssock,
                 ccloses, scloses, cleanups, packet, harnessVars>>

\* except ConnectionResetError: break
AfterReset == "cleanup"

\* recv raises ConnectionResetError
RecvReset(c) ==
  /\ c \in active
  /\ pc[c] = "recv"
  /\ ~Skipped(c)
  /\ todo' = [todo EXCEPT ![c] = <<>>]
  /\ pc' = [pc EXCEPT ![c] = AfterReset]
  /\ UNCHANGED <<serverVars, poolVars, pause_by_default, proto, running, csock, ssock,
                 ccloses, scloses, cleanups, skip, packet, harnessVars>>

\* recv raises socket.timeout: continue (the rest of the pass is not run)
RecvTimeout(c) ==
  /\ c \in active
  /\ pc[c] = "recv"
  /\ ~Skipped(c)
  /\ todo' = [todo EXCEPT ![c] = <<>>]
  /\ pc' = [pc EXCEPT ![c] = AfterTimeout]
  /\ UNCHANGED <<serverVars, poolVars, pause_by_default, proto, running, csock, ssock,
                 ccloses, scloses, cleanups, skip, packet, harnessVars>>

\* recv, create_packet or log_packet raises anything else: except Exception: break
RecvError(c) ==
  /\ c \in active
  /\ pc[c] = "recv"
  /\ ~Skipped(c)
  /\ todo' = [todo EXCEPT ![c] = <<>>]
  /\ pc' = [pc EXCEPT ![c] = "cleanup"]
  /\ UNCHANGED <<serverVars, poolVars, pause_by_default, proto, running, csock, ssock,
                 ccloses, scloses, cleanups, skip, packet, harnessVars>>

\* faulty variant: the loop stays on a paused packet (and so on nothing else)
HoldsPacketWhilePaused(c) == packet[c].paused

\* `if packet.paused: logging.info(...)  # In a real implementation, we would wait
\* here`: does the loop hold the packet back before the send?  It only logs.
HoldsPacket(c) == FALSE

\* sendall of the data just read to the other socket succeeds
SendOk(c) ==
  /\ c \in active
  /\ pc[c] = "send"
  /\ ~HoldsPacket(c)
  /\ packet' = [packet EXCEPT ![c] = NoPacket]
  /\ NextSock(c)
  /\ UNCHANGED <<serverVars, poolVars, pause_by_default, proto, running, csock, ssock,
                 ccloses, scloses, cleanups, harnessVars>>

\* sendall raises socket.timeout: continue
SendTimeout(c) ==
  /\ c \in active
  /\ pc[c] = "send"
  /\ ~HoldsPacket(c)
  /\ packet' = [packet EXCEPT ![c] = NoPacket]
  /\ todo' = [todo EXCEPT ![c] = <<>>]
  /\ pc' = [pc EXCEPT ![c] = AfterTimeout]
  /\ UNCHANGED <<serverVars, poolVars, pause_by_default, proto, running, csock, ssock,
                 ccloses, scloses, cleanups, skip, harnessVars>>

\* sendall raises ConnectionResetError or another error: break
SendError(c) ==
  /\ c \in active
  /\ pc[c] = "send"
  /\ ~HoldsPacket(c)
  /\ packet' = [packet EXCEPT ![c] = NoPacket]
  /\ todo' = [todo EXCEPT ![c] = <<>>]
  /\ pc' = [pc EXCEPT ![c] = AfterReset]
  /\ UNCHANGED <<serverVars, poolVars, pause_by_default, proto, running, csock, ssock,
                 ccloses, scloses, cleanups, skip, harnessVars>>

\* DNS: client_socket.recvfrom times out after 0.1 s: continue
DnsRecvTimeout(c) ==
  /\ c \in active
  /\ pc[c] = "select"
  /\ proto[c] = "dns"
  /\ pc' = [pc EXCEPT ![c] = AfterTimeout]
  /\ UNCHANGED <<serverVars, poolVars, pause_by_default, proto, running, csock, ssock,
                 ccloses, scloses, cleanups, skip, todo, packet, harnessVars>>

\* DNS: recvfrom returns no data (`if not data: break`) or raises
DnsRecvEmpty(c) ==
  /\ c \in active
  /\ pc[c] = "select"
  /\ proto[c] = "dns"
  /\ pc' = [pc EXCEPT ![c] = "cleanup"]
  /\ UNCHANGED <<serverVars, poolVars, pause_by_default, proto, running, csock, ssock,
                 ccloses, scloses, cleanups, skip, todo, packet, harnessVars>>

\* DNS: recvfrom returns a datagram; create_packet calls getpeername() on the
\* upstream UDP socket, which was never connected: OSError, except Exception: break
DnsRecvData(c) ==
  /\ c \in active
  /\ pc[c] = "select"
  /\ proto[c] = "dns"
  /\ pc' = [pc EXCEPT ![c] = AfterException]
  /\ UNCHANGED <<serverVars, poolVars, pause_by_default, proto, running, csock, ssock,
                 ccloses, scloses, cleanups, skip, todo, packet, harnessVars>>

\* _cleanup closes a socket the handler holds, once (`if self.client_socket:` /
\* `if self.server_socket:`; an error of close() is swallowed)
CloseCalls(sock) == IF sock = "none" THEN 0 ELSE 1
Closed(sock) == IF sock = "none" THEN "none" ELSE "closed"

\* faulty variant: the running flag and the sockets are shared by all handlers
CleanupTargetsAll(c) == Conns

\* the handlers whose running flag and sockets _cleanup of handler c touches: they are
\* instance attributes (self.running, self.client_socket, self.server_socket)
CleanupTargets(c) == {c}

\* _cleanup, run from the finally of handle_connection, which then returns and
\* frees the worker
Cleanup(c) ==
  /\ c \in active
  /\ pc[c] = "cleanup"
  /\ running' = [d \in Conns |-> IF d \in CleanupTargets(c) THEN FALSE ELSE running[d]]
  /\ cleanups' = [cleanups EXCEPT ![c] = @ + 1]
  /\ csock' = [d \in Conns |-> IF d \in CleanupTargets(c) THEN Closed(csock[d]) ELSE csock[d]]
  /\ ccloses' = [d \in Conns |-> IF d \in CleanupTargets(c)
                                   THEN ccloses[d] + CloseCalls(csock[d]) ELSE ccloses[d]]
  /\ ssock' = [d \in Conns |-> IF d \in CleanupTargets(c) THEN Closed(ssock[d]) ELSE ssock[d]]
  /\ scloses' = [d \in Conns |-> IF d \in CleanupTargets(c)
                                   THEN scloses[d] + CloseCalls(ssock[d]) ELSE scloses[d]]
  /\ pc' = [pc EXCEPT ![c] = "done"]
  /\ active' = active \ {c}
  /\ UNCHANGED <<serverVars, queue, pool_shutdown, pause_by_default, proto, skip, todo,
                 packet, harnessVars>>

(***************************************************************************)
(* The server specification.                                               *)
(***************************************************************************)

\* the Telnet tokenizer harness is idle in the server specification
TelnetIdle ==
  /\ tstream = <<>>
  /\ tcut = 0
  /\ tbuf = <<>>
  /\ temit = <<>>
  /\ treads = 0

\* the state after ProxyServer.__init__, before start()
ServerInit ==
  /\ enabled \in EnabledSets
  /\ server_running = FALSE
  /\ mainpc = "init"
  /\ sdIdx = 0
  /\ lsock = [p \in Protocols |-> "none"]
  /\ lpc = [p \in Protocols |-> "idle"]
  /\ lconn = [p \in Protocols |-> 0]
  /\ nextConn = 1
  /\ queue = <<>>
  /\ active = {}
  /\ pool_shutdown = FALSE
  /\ pause_by_default \in BOOLEAN
  /\ pc = [c \in Conns |-> "none"]
  /\ proto = [c \in Conns |-> "none"]
  /\ running = [c \in Conns |-> FALSE]
  /\ csock = [c \in Conns |-> "none"]
  /\ ssock = [c \in Conns |-> "none"]
  /\ ccloses = [c \in Conns |-> 0]
  /\ scloses = [c \in Conns |-> 0]
  /\ cleanups = [c \in Conns |-> 0]
  /\ skip = [c \in Conns |-> FALSE]
  /\ todo = [c \in Conns |-> <<>>]
  /\ packet = [c \in Conns |-> NoPacket]

\* no packet captured
NoCapture == [protocol |-> "none"]

\* the packet capture harness is idle outside its own specification
CaptureIdle ==
  /\ hproto = "none"
  /\ inspection_mode = "none"
  /\ hdir = "none"
  /\ hdata = <<>>
  /\ hpc = "idle"
  /\ hmeta = <<>>
  /\ hraised = "none"
  /\ hpacket = NoCapture
  /\ hparses = 0

\* self.initial_request before _setup_server_connection assigns it
Unset == <<"unset">>

\* the HTTP session harness is idle
HttpIdle ==
  /\ xreq = <<>>
  /\ xclosed = FALSE
  /\ xoff = 0
  /\ header_data = <<>>
  /\ initial_request = Unset
  /\ target_host = <<>>
  /\ target_port = 0
  /\ xssock = "none"
  /\ xcsock = "open"
  /\ up_sent = <<>>
  /\ cl_sent = <<>>
  /\ skip_client_first = FALSE
  /\ xrunning = FALSE
  /\ xtodo = <<>>
  /\ xdata = <<>>
  /\ xresp = 0
  /\ xfail = "none"
  /\ xlost = FALSE
  /\ xpc = "idle"

\* the Packet operations harness is idle outside its own specification
PacketIdle ==
  /\ upacket = NoCapture
  /\ uret = "none"
  /\ ucall = [op |-> "none"]

\* self.data_connection is None
NoDataConnection == [server_socket |-> "none", ip |-> "none", port |-> 0]

\* no datagram received
NoDatagram == [n |-> 0, data |-> <<>>, addr |-> "none"]

\* the FTP session harness is idle outside its own specification
FtpIdle ==
  /\ fpc = "idle"
  /\ frunning = FALSE
  /\ freads = 0
  /\ fdata = <<>>
  /\ fdir = "none"
  /\ passive_mode = FALSE
  /\ data_connection = NoDataConnection
  /\ fconnects = <<>>
  /\ fdsocks = <<>>
  /\ fup = <<>>
  /\ fdown = <<>>
  /\ fpackets = <<>>
  /\ fpending = <<>>
  /\ ftodo = <<>>

\* the DNS relay harness is idle outside its own specification
DnsIdle ==
  /\ dpc = "idle"
  /\ dmode = "both"
  /\ ddatagram = NoDatagram
  /\ dreply = "none"
  /\ dsent = <<>>
  /\ dback = <<>>
  /\ dwaits = 0

\* the persistence harness is idle outside its own specification
StoreIdle ==
  /\ spacket = NoCapture
  /\ sjson = <<>>
  /\ sbin = <<>>
  /\ spath = <<>>
  /\ sloaded = [loaded |-> "no call"]

\* the scanning harness is idle outside its own specification
ScanIdle ==
  /\ zloop = "none"
  /\ zdata = <<>>
  /\ zindex = 0
  /\ zdone = FALSE
  /\ zsteps = 0

\* the harnesses added to the relay harnesses
OtherIdle == StoreIdle /\ ScanIdle

RelayIdle == FtpIdle /\ DnsIdle /\ OtherIdle

Init == ServerInit /\ TelnetIdle /\ CaptureIdle /\ PacketIdle /\ HttpIdle /\ RelayIdle

ListenerStep(p) ==
  \/ ListenerCheck(p)
  \/ AcceptConn(p)
  \/ AcceptTimeout(p)
  \/ AcceptError(p)
  \/ Submit(p)

ShutdownStep ==
  \/ ShutdownClose
  \/ ShutdownPool

HandlerStep(c) ==
  \/ HandleStart(c)
  \/ SetupFailEarly(c)
  \/ SetupFailConnect(c)
  \/ \E plain \in BOOLEAN : SetupOk(c, plain)
  \/ LoopCheck(c)
  \/ \E r \in ReadableLists : SelectReady(c, r)
  \/ SelectTimeout(c)
  \/ SelectExceptional(c)
  \/ RecvSkip(c)
  \/ RecvData(c)
  \/ RecvHeld(c)
  \/ RecvEOF(c)
  \/ RecvReset(c)
  \/ RecvTimeout(c)
  \/ RecvError(c)
  \/ SendOk(c)
  \/ SendTimeout(c)
  \/ SendError(c)
  \/ DnsRecvTimeout(c)
  \/ DnsRecvEmpty(c)
  \/ DnsRecvData(c)
  \/ Cleanup(c)

Next ==
  \/ Start
  \/ ShutdownCall
  \/ ShutdownStep
  \/ \E p \in Protocols : ListenerStep(p)
  \/ PoolStart
  \/ \E c \in Conns : HandlerStep(c)

Spec == Init /\ [][Next]_vars

\* The threads are scheduled fairly: the main thread once inside shutdown(), every
\* listener thread, the pool's workers and every running handler keep taking steps.
\* Nothing is assumed of the environment: a peer may stay silent forever (the
\* handler's steps are then its timeouts).
Fairness ==
  /\ WF_vars(ShutdownStep)
  /\ WF_vars(PoolStart)
  /\ \A p \in Protocols : WF_vars(ListenerStep(p))
  /\ \A c \in Conns : WF_vars(HandlerStep(c))

FairSpec == Spec /\ Fairness

(***************************************************************************)
(* Properties.                                                             *)
(***************************************************************************)

\* the handler positions inside handle_connection
ExecPcs == {"start", "setup", "loop", "select", "recv", "send", "cleanup"}
\* the handler positions inside the while loop of _proxy_data
RelayPcs == {"loop", "select", "recv", "send"}
Executing == {c \in Conns : pc[c] \in ExecPcs}
\* shutdown() has been called
ShutdownCalled == mainpc \in {"closing", "stopped"}
\* shutdown() has returned
ShutdownReturned == mainpc = "stopped"

\* C1: a captured packet whose paused flag is true is forwarded only after a release:
\* an explicit resume (which clears the flag), the expiry of the pause timeout, or
\* global shutdown.  The relay loops hold no pause timer and nothing clears the flag of
\* a captured packet, so a release is a cleared flag or a shutdown.
C1_PausedHeldUntilRelease ==
  [][\A c \in Conns :
       (SendOk(c) \/ SendTimeout(c) \/ SendError(c))
         => (~packet[c].paused \/ ShutdownCalled)]_vars

\* C2: a handler that holds a paused packet of one direction is never stopped by it:
\* its forwarding step is enabled, and when the other socket is readable in the same
\* pass the loop goes on to read it right after the paused packet was sent.
C2_PauseDoesNotBlockOtherDirection ==
  /\ [](\A c \in Conns :
          (pc[c] = "send" /\ packet[c].paused) => ENABLED SendOk(c))
  /\ [][\A c \in Conns :
          (pc[c] = "send" /\ packet[c].paused /\ Len(todo[c]) = 2 /\ SendOk(c))
            => (pc'[c] = "recv" /\ todo'[c] = <<ServerSock>>)]_vars

\* C2 witness: a paused client_to_server packet is in flight while the server socket
\* is readable in the same pass
C2_Witness ==
  \E c \in Conns :
    /\ pc[c] = "send"
    /\ packet[c] = [dir |-> C2S, paused |-> TRUE]
    /\ todo[c] = <<ClientSock, ServerSock>>

\* C3: after shutdown() every handler leaves its relay loop (even if no endpoint
\* ever closes or sends)
C3_HandlersStopAfterShutdown ==
  ShutdownReturned ~> (\A c \in Conns : pc[c] \notin RelayPcs)

\* C4: handle_connection never returns without _cleanup, _cleanup runs exactly once,
\* and afterwards running is false, the client socket was closed exactly once and the
\* upstream socket, if one was created, was closed exactly once
C4_CleanupExactlyOnce ==
  \A c \in Conns :
    /\ (pc[c] \in ExecPcs) = (c \in active)
    /\ pc[c] \in ExecPcs => (cleanups[c] = 0 /\ ccloses[c] = 0 /\ scloses[c] = 0)
    /\ pc[c] = "done" =>
         /\ cleanups[c] = 1
         /\ ~running[c]
         /\ csock[c] = "closed" /\ ccloses[c] = 1
         /\ \/ ssock[c] = "none" /\ scloses[c] = 0
            \/ ssock[c] = "closed" /\ scloses[c] = 1

\* C4 witness: a session is over and had created its upstream socket
C4_Witness == \E c \in Conns : pc[c] = "done" /\ ssock[c] = "closed" /\ scloses[c] = 1

\* C5: at most max_connections handle_connection calls execute at any moment
C5_PoolBound == Cardinality(Executing) <= max_connections

\* C5 witness: the pool is full and a further accepted connection waits
C5_Witness == Cardinality(Executing) = max_connections /\ queue # <<>>

\* C6: when max_connections handlers are running, the submission of a newly accepted
\* connection does not return (the listener is blocked) until a worker is free
C6_SubmitBlocksWhenFull ==
  [][\A p \in Protocols :
       (Submit(p) /\ ~pool_shutdown) => Cardinality(Executing) < max_connections]_vars

\* C7: shutdown() clears the running flag and closes every listening socket without
\* waiting for the handlers; once it has returned no listener accepts a connection,
\* and every listener loop terminates
C7_ShutdownStopsListeners ==
  /\ [](ShutdownCalled => ~server_running)
  /\ [](mainpc = "closing" => ENABLED ShutdownStep)
  /\ [](ShutdownReturned => \A p \in enabled : lsock[p] = "closed")
  /\ [][ShutdownReturned => (\A p \in Protocols : ~AcceptConn(p))]_vars
  /\ ShutdownCalled ~> (\A p \in enabled : lpc[p] = "exited")

\* C7 witness: shutdown() has returned and every listener has exited while a handler
\* is still in its relay loop
C7_Witness ==
  /\ ShutdownReturned
  /\ \A p \in enabled : lpc[p] = "exited"
  /\ \E c \in Conns : pc[c] \in RelayPcs

\* C8: in the HTTP, FTP and Telnet relay loops a clean EOF clears running and the loop
\* exits to _cleanup at its next condition check; a connection reset leaves the loop
\* for _cleanup; a readiness-wait, read or send timeout goes back to the loop
\* condition with running still true, and the loop waits again
C8_EofResetEndTimeoutRetries ==
  [][\A c \in Conns :
       /\ RecvEOF(c) => (pc'[c] = "loop" /\ ~running'[c])
       /\ (pc[c] = "loop" /\ ~running[c] /\ HandlerStep(c)) => pc'[c] = "cleanup"
       /\ (RecvReset(c) \/ SendError(c)) => pc'[c] = "cleanup"
       /\ (pc[c] = "cleanup" /\ HandlerStep(c)) => (cleanups'[c] = 1 /\ pc'[c] = "done")
       /\ (SelectTimeout(c) \/ RecvTimeout(c) \/ SendTimeout(c))
            => (pc'[c] = "loop" /\ running'[c])
       /\ (pc[c] = "loop" /\ running[c] /\ HandlerStep(c)) => pc'[c] = "select"]_vars

\* C8 witness: a relay loop was ended by EOF (running is already false) and its
\* cleanup is about to run
C8_Witness ==
  \E c \in Conns :
    pc[c] = "cleanup" /\ ~running[c] /\ proto[c] \in {"http", "ftp", "telnet"}

\* the steps by which an error ends a session: the failing step and the cleanup
ErrorStep(c) ==
  \/ SetupFailEarly(c)
  \/ SetupFailConnect(c)
  \/ SelectExceptional(c)
  \/ RecvReset(c)
  \/ RecvError(c)
  \/ SendError(c)
  \/ DnsRecvData(c)
  \/ Cleanup(c)

IAC == 255
DONT == 254
DO == 253
WONT == 252
WILL == 251
SB == 250
SE == 240

\* the bytes of the streams explored: the command bytes and one text byte
TelnetBytes == {IAC, SB, SE, WILL, 65}

\* the byte sequences of length n
RECURSIVE SeqsOfLen(_)
SeqsOfLen(n) ==
  IF n = 0 THEN {<<>>}
  ELSE {Append(q, b) : q \in SeqsOfLen(n - 1), b \in TelnetBytes}

\* the streams a peer sends in two non-empty reads
Streams == UNION {SeqsOfLen(n) : n \in 2..MaxStream}

Contains(buffer, b) == \E k \in 1..Len(buffer) : buffer[k] = b

\* the inner while of the subnegotiation branch: the first j >= from with
\* buffer[j] = IAC and buffer[j+1] = SE, or Len(buffer) (or more) when there is none
RECURSIVE FindSE(_, _)
FindSE(buffer, j) ==
  IF j < Len(buffer) /\ ~(buffer[j] = IAC /\ buffer[j + 1] = SE)
    THEN FindSE(buffer, j + 1)
    ELSE j

\* the while loop of _process_telnet_commands from index i (1-based) with
\* processed_data = out; the result is (processed_data, remaining_buffer)
RECURSIVE Scan(_, _, _)
Scan(buffer, i, out) ==
  IF i > Len(buffer) THEN [out |-> out, rem |-> <<>>]
  ELSE IF buffer[i] # IAC \/ i >= Len(buffer)
    THEN Scan(buffer, i + 1, Append(out, buffer[i]))
  ELSE IF buffer[i + 1] \in {DO, DONT, WILL, WONT} /\ i < Len(buffer) - 1
    THEN Scan(buffer, i + 3, out \o <<IAC, buffer[i + 1], buffer[i + 2]>>)
  ELSE IF buffer[i + 1] = SB
    THEN LET j == FindSE(buffer, i + 2) IN
         IF j < Len(buffer)
           THEN Scan(buffer, j + 2, out \o SubSeq(buffer, i, j + 1))
           ELSE [out |-> out, rem |-> SubSeq(buffer, i, Len(buffer))]
  ELSE Scan(buffer, i + 2, out \o <<IAC, buffer[i + 1]>>)

ProcessTelnetCommands(buffer) ==
  IF ~Contains(buffer, IAC) THEN [out |-> buffer, rem |-> <<>>]
  ELSE Scan(buffer, 1, <<>>)

\* the bytes the n-th recv returns
Chunk(n) ==
  IF n = 1 THEN SubSeq(tstream, 1, tcut) ELSE SubSeq(tstream, tcut + 1, Len(tstream))

\* one read of _proxy_data: buffer += data; processed, buffer = _process_telnet_commands
\* (buffer); the processed bytes (possibly none) are what is captured and sent
TelnetRead ==
  /\ treads < 2
  /\ LET r == ProcessTelnetCommands(tbuf \o Chunk(treads + 1)) IN
       /\ temit' = Append(temit, r.out)
       /\ tbuf' = r.rem
  /\ treads' = treads + 1
  /\ UNCHANGED <<tstream, tcut, serverVars, poolVars, pause_by_default, sessVars,
                 captureVars, packetVars, httpVars, relayVars>>

InitTelnet ==
  /\ ServerInit
  /\ enabled = {"telnet"}
  /\ pause_by_default = FALSE
  /\ tstream \in Streams
  /\ tcut \in 1..(Len(tstream) - 1)
  /\ tbuf = <<>>
  /\ temit = <<>>
  /\ treads = 0
  /\ CaptureIdle
  /\ PacketIdle
  /\ HttpIdle
  /\ RelayIdle

NextTelnet == TelnetRead

SpecTelnet == InitTelnet /\ [][NextTelnet]_vars

\* the stream holds a subnegotiation at i..j: IAC SB, a body without IAC, IAC SE,
\* after a prefix of plain text
SubnegAt(i, j) ==
  /\ 1 <= i /\ i + 3 <= j /\ j <= Len(tstream)
  /\ tstream[i] = IAC /\ tstream[i + 1] = SB
  /\ tstream[j - 1] = IAC /\ tstream[j] = SE
  /\ \A k \in 1..(j - 2) : k \notin {i} => tstream[k] # IAC

\* C10: when the two reads split a subnegotiation strictly inside it, the first read
\* emits none of its bytes (only the text before it; the received part is the
\* remainder), the second read emits the whole subnegotiation as one unit, and
\* no byte is duplicated or dropped
C10_SplitSubnegReassembled ==
  \A i, j \in 1..Len(tstream) :
    (SubnegAt(i, j) /\ i <= tcut /\ tcut < j) =>
      /\ treads >= 1 => temit[1] = SubSeq(tstream, 1, i - 1)
      /\ treads = 1 => tbuf = SubSeq(tstream, i, tcut)
      /\ treads = 2 =>
           /\ Len(temit[2]) >= j - i + 1
           /\ SubSeq(temit[2], 1, j - i + 1) = SubSeq(tstream, i, j)
           /\ temit[1] \o temit[2] \o tbuf = tstream

\* the same statement for the splits at least two bytes into the subnegotiation
\* (after IAC SB): these are the splits the tokenizer handles
SplitAfterSBReassembled ==
  \A i, j \in 1..Len(tstream) :
    (SubnegAt(i, j) /\ i + 1 <= tcut /\ tcut < j) =>
      /\ treads >= 1 => temit[1] = SubSeq(tstream, 1, i - 1)
      /\ treads = 1 => tbuf = SubSeq(tstream, i, tcut)
      /\ treads = 2 =>
           /\ Len(temit[2]) >= j - i + 1
           /\ SubSeq(temit[2], 1, j - i + 1) = SubSeq(tstream, i, j)
           /\ temit[1] \o temit[2] \o tbuf = tstream

\* C11: every emitted chunk ends on a token boundary.  When the bytes of the first
\* read are plain text followed by an incomplete command sequence (a lone IAC, IAC and
\* DO / DONT / WILL / WONT without the option byte, or IAC SB without its IAC SE), the
\* first read emits the text only and the incomplete sequence is the remainder
C11_EmitsOnTokenBoundary ==
  treads >= 1 =>
    \A i \in 1..tcut :
      LET text == SubSeq(tstream, 1, i - 1)
          tail == SubSeq(tstream, i, tcut)
          Incomplete ==
            \/ tail = <<IAC>>
            \/ Len(tail) = 2 /\ tail[1] = IAC /\ tail[2] \in {DO, DONT, WILL, WONT}
            \/ /\ Len(tail) >= 2 /\ tail[1] = IAC /\ tail[2] = SB
               /\ \A k \in 3..(Len(tail) - 1) : ~(tail[k] = IAC /\ tail[k + 1] = SE)
      IN (~Contains(text, IAC) /\ Incomplete)
           => (temit[1] = text /\ (treads = 1 => tbuf = tail))

\* the part of C11 the tokenizer does implement: an unterminated IAC SB after plain
\* text is retained whole and only the text is emitted
UnterminatedSubnegRetained ==
  treads >= 1 =>
    \A i \in 1..(tcut - 1) :
      LET text == SubSeq(tstream, 1, i - 1)
          tail == SubSeq(tstream, i, tcut)
      IN (/\ ~Contains(text, IAC)
          /\ tail[1] = IAC /\ tail[2] = SB
          /\ \A k \in 3..(Len(tail) - 1) : ~(tail[k] = IAC /\ tail[k + 1] = SE))
           => (temit[1] = text /\ (treads = 1 => tbuf = tail))


(***************************************************************************)
(* parse_packet of the four handlers.  Bytes are small integers, a str is  *)
(* the sequence of its code points or a TLA+ string, metadata is a         *)
(* function from keys to values.  The body of each parse_packet is an      *)
(* operator that yields the metadata built so far and the exception, if    *)
(* any, that left the body.                                                *)
(***************************************************************************)

\* metadata = {}
EmptyMeta == <<>>

\* metadata[k] = v
Put(m, k, v) == (k :> v) @@ m

\* data[k] for a Python (0-based) index k inside the data
Byte(d, k) == d[k + 1]

\* data[a:b]: the slice stops at the end of the data and is empty beyond it
Slice(d, a, b) ==
  LET e == IF b > Len(d) THEN Len(d) ELSE b IN
  IF a >= e THEN <<>> ELSE SubSeq(d, a + 1, e)

\* bytes.decode('utf-8', 'ignore'): an ASCII byte is its character, a byte that starts
\* no valid UTF-8 sequence is dropped (the streams explored hold no valid multi-byte
\* sequence)
Decode(d) == SelectSeq(d, LAMBDA b : b < 128)

\* struct.unpack('!H', ...): the big-endian 16-bit value at offset k
U16(d, k) == Byte(d, k) * 256 + Byte(d, k + 1)

\* faulty variant: the field taken from the low bits, without the shift
BitsLow(flags, n, w) == flags % (2 ^ w)

\* (flags >> n) & mask, mask = 2^w - 1
Bits(flags, n, w) == (flags \div (2 ^ n)) % (2 ^ w)

\* opcode_map.get(opcode, f'UNKNOWN ({opcode})')
OpcodeName(opcode) ==
  CASE opcode = 0 -> "QUERY"
    [] opcode = 1 -> "IQUERY"
    [] opcode = 2 -> "STATUS"
    [] opcode = 3 -> "NOTIFY"
    [] opcode = 4 -> "UPDATE"
    [] OTHER -> "UNKNOWN (" \o ToString(opcode) \o ")"

\* rcode_map.get(rcode, f'UNKNOWN ({rcode})')
RcodeName(rcode) ==
  CASE rcode = 0 -> "NOERROR"
    [] rcode = 1 -> "FORMERR"
    [] rcode = 2 -> "SERVFAIL"
    [] rcode = 3 -> "NXDOMAIN"
    [] rcode = 4 -> "NOTIMP"
    [] rcode = 5 -> "REFUSED"
    [] OTHER -> "UNKNOWN (" \o ToString(rcode) \o ")"

\* qtype_map.get(qtype, f'TYPE{qtype}')
QtypeName(qtype) ==
  CASE qtype = 1 -> "A"
    [] qtype = 2 -> "NS"
    [] qtype = 5 -> "CNAME"
    [] qtype = 6 -> "SOA"
    [] qtype = 12 -> "PTR"
    [] qtype = 15 -> "MX"
    [] qtype = 16 -> "TXT"
    [] qtype = 28 -> "AAAA"
    [] qtype = 33 -> "SRV"
    [] qtype = 255 -> "ANY"
    [] OTHER -> "TYPE" \o ToString(qtype)

\* qclass_map.get(qclass, f'CLASS{qclass}')
QclassName(qclass) ==
  CASE qclass = 1 -> "IN"
    [] qclass = 2 -> "CS"
    [] qclass = 3 -> "CH"
    [] qclass = 4 -> "HS"
    [] qclass = 255 -> "ANY"
    [] OTHER -> "CLASS" \o ToString(qclass)

\* the `while True` loop that reads the query name from `offset`: data[offset] raises
\* IndexError at the end of the data; a label slice is cut at the end of the data
RECURSIVE WalkName(_, _, _)
WalkName(d, offset, parts) ==
  IF offset >= Len(d)
    THEN [exc |-> "IndexError", offset |-> offset, parts |-> parts]
  ELSE LET length == Byte(d, offset) IN
    IF length = 0
      THEN [exc |-> "none", offset |-> offset + 1, parts |-> parts]
      ELSE WalkName(d, offset + 1 + length,
                    Append(parts, Decode(Slice(d, offset + 1, offset + 1 + length))))

\* faulty variant: the labels joined without a separator
RECURSIVE JoinPlain(_)
JoinPlain(parts) == IF parts = <<>> THEN <<>> ELSE parts[1] \o JoinPlain(Tail(parts))

\* '.'.join(domain_parts), as code points
RECURSIVE JoinDot(_)
JoinDot(parts) ==
  IF parts = <<>> THEN <<>>
  ELSE IF Len(parts) = 1 THEN parts[1]
  ELSE parts[1] \o <<46>> \o JoinDot(Tail(parts))

\* the header fields and decoded flags the DNS parse_packet stores
DnsHeaderMeta(d) ==
  LET flags == U16(d, 2) IN
    ("transaction_id" :> U16(d, 0))
    @@ ("query_count" :> U16(d, 4))
    @@ ("answer_count" :> U16(d, 6))
    @@ ("authority_count" :> U16(d, 8))
    @@ ("additional_count" :> U16(d, 10))
    @@ ("is_response" :> (Bits(flags, 15, 1) = 1))
    @@ ("opcode" :> Bits(flags, 11, 4))
    @@ ("authoritative" :> (Bits(flags, 10, 1) = 1))
    @@ ("truncated" :> (Bits(flags, 9, 1) = 1))
    @@ ("recursion_desired" :> (Bits(flags, 8, 1) = 1))
    @@ ("recursion_available" :> (Bits(flags, 7, 1) = 1))
    @@ ("response_code" :> Bits(flags, 0, 4))
    @@ ("opcode_name" :> OpcodeName(Bits(flags, 11, 4)))
    @@ ("response_code_name" :> RcodeName(Bits(flags, 0, 4)))

\* `if qr and ancount > 0`: answers = [], the question section is skipped (guarded by
\* offset < len(data), nothing is stored), answers_parsed = min(ancount, 10)
DnsAnswersMeta(d, m) ==
  IF Bits(U16(d, 2), 15, 1) = 1 /\ U16(d, 6) > 0
    THEN Put(Put(m, "answers", <<>>), "answers_parsed",
             IF U16(d, 6) < 10 THEN U16(d, 6) ELSE 10)
    ELSE m

\* faulty variant: no length test, struct.unpack raises on data shorter than the header
DnsParseBodyUnchecked(d) ==
  IF Len(d) < 12 THEN [meta |-> EmptyMeta, exc |-> "struct.error"]
  ELSE [meta |-> DnsAnswersMeta(d, DnsHeaderMeta(d)), exc |-> "none"]

\* the try body of DNSProtocolHandler.parse_packet
DnsParseBody(d) ==
  IF Len(d) < 12
    THEN [meta |-> Put(EmptyMeta, "error", "Packet too short for DNS header"), exc |-> "none"]
  ELSE LET m1 == DnsHeaderMeta(d) IN
    IF U16(d, 4) > 0
      THEN LET w == WalkName(d, 12, <<>>) IN
        IF w.exc # "none" THEN [meta |-> m1, exc |-> w.exc]
        ELSE LET m2 == Put(m1, "query_name", JoinDot(w.parts))
                 m3 == IF w.offset + 4 <= Len(d)
                         THEN Put(Put(m2, "query_type", QtypeName(U16(d, w.offset))),
                                  "query_class", QclassName(U16(d, w.offset + 2)))
                         ELSE m2
             IN [meta |-> DnsAnswersMeta(d, m3), exc |-> "none"]
      ELSE [meta |-> DnsAnswersMeta(d, m1), exc |-> "none"]

OPT_ECHO == 1
OPT_SGA == 3
OPT_TERM_TYPE == 24
OPT_NAWS == 31
OPT_TERM_SPEED == 32
OPT_LINEMODE == 34
OPT_ENV_VARS == 36

\* _get_command_name
CommandName(cmd) ==
  CASE cmd = DO -> "DO"
    [] cmd = DONT -> "DONT"
    [] cmd = WILL -> "WILL"
    [] cmd = WONT -> "WONT"
    [] cmd = SB -> "SB"
    [] cmd = SE -> "SE"
    [] OTHER -> ToString(cmd)

\* _get_option_name
OptionName(opt) ==
  CASE opt = OPT_ECHO -> "ECHO"
    [] opt = OPT_SGA -> "SGA"
    [] opt = OPT_TERM_TYPE -> "TERM_TYPE"
    [] opt = OPT_NAWS -> "NAWS"
    [] opt = OPT_TERM_SPEED -> "TERM_SPEED"
    [] opt = OPT_LINEMODE -> "LINEMODE"
    [] opt = OPT_ENV_VARS -> "ENV_VARS"
    [] OTHER -> ToString(opt)

HexDigits == <<"0", "1", "2", "3", "4", "5", "6", "7", "8", "9", "a", "b", "c", "d", "e", "f">>

\* bytes.hex()
RECURSIVE Hex(_)
Hex(d) ==
  IF d = <<>> THEN ""
  ELSE HexDigits[(Head(d) \div 16) + 1] \o HexDigits[(Head(d) % 16) + 1] \o Hex(Tail(d))

\* the inner while of the parser's subnegotiation branch: the first j >= from (0-based)
\* with data[j] = IAC and data[j+1] = SE, or the first j >= len(data) - 1
RECURSIVE ParseFindSE(_, _)
ParseFindSE(d, j) ==
  IF j < Len(d) - 1 /\ ~(Byte(d, j) = IAC /\ Byte(d, j + 1) = SE)
    THEN ParseFindSE(d, j + 1)
    ELSE j

\* the scanning loop of the Telnet parse_packet from index i (0-based): the list of
\* command descriptions
RECURSIVE TelnetCommands(_, _, _)
TelnetCommands(d, i, commands) ==
  IF i >= Len(d) THEN commands
  ELSE IF Byte(d, i) = IAC /\ i < Len(d) - 1
    THEN LET cmd == Byte(d, i + 1) IN
      IF cmd \in {DO, DONT, WILL, WONT} /\ i < Len(d) - 2
        THEN TelnetCommands(d, i + 3,
               Append(commands, "IAC " \o CommandName(cmd) \o " " \o OptionName(Byte(d, i + 2))))
      ELSE IF cmd = SB /\ i < Len(d) - 2
        THEN LET sub_opt_name == OptionName(Byte(d, i + 2))
                 j == ParseFindSE(d, i + 3)
             IN IF j < Len(d) - 1
                  THEN TelnetCommands(d, j + 2,
                         Append(commands, "IAC SB " \o sub_opt_name \o " "
                                            \o Hex(Slice(d, i + 3, j)) \o " IAC SE"))
                  ELSE TelnetCommands(d, Len(d),
                         Append(commands, "IAC SB " \o sub_opt_name \o " [incomplete]"))
      ELSE TelnetCommands(d, i + 2, Append(commands, "IAC " \o CommandName(cmd)))
  ELSE TelnetCommands(d, i + 1, commands)

\* ' '.join(text.split()): the whitespace-separated words joined by one space
RECURSIVE JoinWords(_, _, _)
JoinWords(text, out, pending) ==
  IF text = <<>> THEN out
  ELSE IF Head(text) \in {9, 10, 13, 32}
    THEN JoinWords(Tail(text), out, out # <<>>)
    ELSE JoinWords(Tail(text), (IF pending THEN Append(out, 32) ELSE out) \o <<Head(text)>>, FALSE)

\* the try body of TelnetProtocolHandler.parse_packet
TelnetParseBody(d) ==
  LET commands == TelnetCommands(d, 0, <<>>)
      m1 == Put(EmptyMeta, "command_count", Len(commands))
      m2 == IF commands # <<>>
              THEN Put(m1, "commands",
                       SubSeq(commands, 1, IF Len(commands) > 10 THEN 10 ELSE Len(commands)))
              ELSE m1
      m3 == IF Len(commands) > 10
              THEN Put(m2, "additional_commands", Len(commands) - 10)
              ELSE m2
      displayable == SelectSeq(d, LAMBDA b : (b >= 32 /\ b < 127) \/ b \in {9, 10, 13})
      text == JoinWords(displayable, <<>>, FALSE)
      m4 == IF text # <<>>
              THEN Put(m3, "text_preview",
                       IF Len(text) > 100 THEN SubSeq(text, 1, 100) \o <<46, 46, 46>> ELSE text)
              ELSE m3
  IN [meta |-> m4, exc |-> "none"]

(***************************************************************************)
(* HTTP and FTP text is modelled as a sequence of atoms: an atom is one    *)
(* separator or digit character, or a word (a run of other characters      *)
(* that no operation of the parsers looks into).                           *)
(***************************************************************************)

CR == "\r"
LF == "\n"
SP == " "
COLON == ":"
\* stands for the byte 0xff, which is not valid UTF-8 (dropped by decode('utf-8', 'ignore'))
BadByte == "?"

\* the whitespace str.strip() and str.split() remove, among the atoms
Whitespace == {CR, LF, SP}

\* bytes.decode('utf-8', 'ignore') on atoms
DecodeText(d) == SelectSeq(d, LAMBDA a : a # BadByte)

\* len() of a text in characters
RECURSIVE TextLen(_)
TextLen(s) == IF s = <<>> THEN 0 ELSE Len(Head(s)) + TextLen(Tail(s))

\* bytes.split(b'\r\n'): the pieces between the non-overlapping CR LF pairs, scanning
\* from the left (cur: the piece being collected)
RECURSIVE SplitCRLF(_, _)
SplitCRLF(d, cur) ==
  IF d = <<>> THEN <<cur>>
  ELSE IF Len(d) >= 2 /\ d[1] = CR /\ d[2] = LF
    THEN <<cur>> \o SplitCRLF(SubSeq(d, 3, Len(d)), <<>>)
    ELSE SplitCRLF(Tail(d), Append(cur, Head(d)))

\* str.split(sep, maxsplit) for a one-character sep; maxsplit < 0: no limit
RECURSIVE SplitChar(_, _, _, _)
SplitChar(s, sep, maxsplit, cur) ==
  IF s = <<>> THEN <<cur>>
  ELSE IF Head(s) = sep /\ maxsplit # 0
    THEN <<cur>> \o SplitChar(Tail(s), sep, maxsplit - 1, <<>>)
    ELSE SplitChar(Tail(s), sep, maxsplit, Append(cur, Head(s)))

\* str.lstrip(), str.rstrip(), str.strip()
RECURSIVE LStrip(_)
LStrip(s) == IF s # <<>> /\ Head(s) \in Whitespace THEN LStrip(Tail(s)) ELSE s
RECURSIVE RStrip(_)
RStrip(s) ==
  IF s # <<>> /\ s[Len(s)] \in Whitespace THEN RStrip(SubSeq(s, 1, Len(s) - 1)) ELSE s
Strip(s) == RStrip(LStrip(s))

\* the index (1-based) of the first CR LF CR LF in the data, 0 when there is none
RECURSIVE FindBlankLine(_, _)
FindBlankLine(d, k) ==
  IF k + 3 > Len(d) THEN 0
  ELSE IF SubSeq(d, k, k + 3) = <<CR, LF, CR, LF>> THEN k
  ELSE FindBlankLine(d, k + 1)

\* the header loop: `for line in lines[1:]`, stopped by the first empty line; a line
\* with a colon sets headers[name.strip()] = value.strip()
RECURSIVE HttpHeaders(_, _)
HttpHeaders(lines, headers) ==
  IF lines = <<>> \/ Head(lines) = <<>> THEN headers
  ELSE LET header_line == DecodeText(Head(lines)) IN
    IF \E k \in 1..Len(header_line) : header_line[k] = COLON
      THEN LET nv == SplitChar(header_line, COLON, 1, <<>>) IN
           HttpHeaders(Tail(lines), Put(headers, Strip(nv[1]), Strip(nv[2])))
      ELSE HttpHeaders(Tail(lines), headers)

\* the header name the parser looks up
ContentTypeName == <<"Content-Type">>

\* the words that start with 'text/', 'application/json' or 'application/xml'
TextualTypes == {"text/html", "application/json"}

\* body[:100]: the first 100 bytes, taken atom by atom
RECURSIVE TakeBytes(_, _)
TakeBytes(d, n) ==
  IF d = <<>> \/ Len(Head(d)) > n THEN <<>>
  ELSE <<Head(d)>> \o TakeBytes(Tail(d), n - Len(Head(d)))

\* the try body of HTTPProtocolHandler.parse_packet
HttpParseBody(d, direction) ==
  LET lines == SplitCRLF(d, <<>>)
      first == DecodeText(lines[1])
      parts == IF direction = C2S THEN SplitChar(first, SP, -1, <<>>)
                                   ELSE SplitChar(first, SP, 2, <<>>)
      m1 == IF Len(parts) >= 3
              THEN IF direction = C2S
                     THEN Put(Put(Put(EmptyMeta, "method", parts[1]), "path", parts[2]),
                              "version", parts[3])
                     ELSE Put(Put(Put(EmptyMeta, "version", parts[1]), "status_code", parts[2]),
                              "status_message", parts[3])
              ELSE EmptyMeta
      headers == HttpHeaders(Tail(lines), EmptyMeta)
      content_type == IF ContentTypeName \in DOMAIN headers THEN headers[ContentTypeName] ELSE <<>>
      m2 == Put(Put(m1, "headers", headers), "content_type", content_type)
      k == FindBlankLine(d, 1)
      body == SubSeq(d, k + 4, Len(d))
      m3 == IF k = 0 THEN m2
            ELSE LET m == Put(m2, "body_length", TextLen(body)) IN
                 IF content_type # <<>> /\ content_type[1] \in TextualTypes
                   THEN Put(m, "body_preview", DecodeText(TakeBytes(body, 100)))
                   ELSE m
  IN [meta |-> m3, exc |-> "none"]

Digits == {"0", "1", "2", "3", "4", "5", "6", "7", "8", "9"}

\* int() of one decimal digit
DigitValue(a) ==
  CASE a = "0" -> 0 [] a = "1" -> 1 [] a = "2" -> 2 [] a = "3" -> 3 [] a = "4" -> 4
    [] a = "5" -> 5 [] a = "6" -> 6 [] a = "7" -> 7 [] a = "8" -> 8 [] a = "9" -> 9

\* str.upper() of an atom: the lower-case words of the texts explored
UpperAtom(a) ==
  CASE a = "user" -> "USER"
    [] a = "pass" -> "PASS"
    [] a = "bob" -> "BOB"
    [] OTHER -> a

\* str.upper()
Upper(s) == [k \in 1..Len(s) |-> UpperAtom(s[k])]

\* str.isdigit()
IsDigit(s) == s # <<>> /\ \A k \in 1..Len(s) : s[k] \in Digits

\* the end (exclusive, 1-based) of the run of digits that starts at k
RECURSIVE DigitsEnd(_, _)
DigitsEnd(s, k) == IF k <= Len(s) /\ s[k] \in Digits THEN DigitsEnd(s, k + 1) ELSE k

\* int() of a run of decimal digits
RECURSIVE IntOf(_, _)
IntOf(s, acc) == IF s = <<>> THEN acc ELSE IntOf(Tail(s), acc * 10 + DigitValue(Head(s)))

\* the pattern (\d+),(\d+),(\d+),(\d+),(\d+),(\d+)\) matched from position k, with
\* `groups` the numbers matched so far: the six numbers, or <<>> when there is no match
RECURSIVE MatchNumbers(_, _, _)
MatchNumbers(s, k, groups) ==
  LET e == DigitsEnd(s, k) IN
  IF e = k \/ e > Len(s) THEN <<>>
  ELSE LET g == Append(groups, IntOf(SubSeq(s, k, e - 1), 0)) IN
    IF Len(g) = 6 THEN (IF s[e] = ")" THEN g ELSE <<>>)
    ELSE IF s[e] = "," THEN MatchNumbers(s, e + 1, g)
    ELSE <<>>

\* re.search(r'\((\d+),(\d+),(\d+),(\d+),(\d+),(\d+)\)', text): the groups of the
\* leftmost match as integers, or <<>>
RECURSIVE SearchPasv(_, _)
SearchPasv(s, k) ==
  IF k > Len(s) THEN <<>>
  ELSE IF s[k] = "(" /\ MatchNumbers(s, k + 1, <<>>) # <<>> THEN MatchNumbers(s, k + 1, <<>>)
  ELSE SearchPasv(s, k + 1)

\* the FTP parser, client_to_server: the command and its argument
FtpCommandMeta(text) ==
  LET parts == SplitChar(text, SP, 1, <<>>)
      command == Upper(parts[1])
      m1 == Put(EmptyMeta, "command", command)
      m2 == IF Len(parts) > 1 THEN Put(m1, "argument", parts[2]) ELSE m1
  IN CASE command = <<"USER">> ->
            Put(m2, "username", IF Len(parts) > 1 THEN parts[2] ELSE <<>>)
       [] command = <<"PASS">> -> Put(m2, "password", "********")
       [] command \in {<<"CWD">>, <<"CDUP">>, <<"PWD">>} -> Put(m2, "directory_operation", TRUE)
       [] command \in {<<"RETR">>, <<"STOR">>, <<"LIST">>, <<"NLST">>} ->
            LET m3 == Put(m2, "data_channel_operation", TRUE) IN
            IF command \in {<<"RETR">>, <<"STOR">>} /\ Len(parts) > 1
              THEN Put(m3, "filename", parts[2]) ELSE m3
       [] OTHER -> m2

\* the category of a response code from its first digit
ResponseType(d) ==
  CASE d = "1" -> "preliminary"
    [] d = "2" -> "completion"
    [] d = "3" -> "intermediate"
    [] d = "4" -> "transient_negative"
    [] d = "5" -> "permanent_negative"
    [] OTHER -> "none"

\* the FTP parser, server_to_client: the response code, message and category, and the
\* passive-mode address of a 227 response
FtpResponseMeta(text) ==
  LET parts == SplitChar(text, SP, 1, <<>>) IN
  IF ~IsDigit(parts[1]) THEN EmptyMeta
  ELSE LET code == parts[1]
           m1 == Put(EmptyMeta, "response_code", code)
           m2 == IF Len(parts) > 1 THEN Put(m1, "response_message", parts[2]) ELSE m1
           m3 == IF ResponseType(code[1]) # "none"
                   THEN Put(m2, "response_type", ResponseType(code[1])) ELSE m2
           g == SearchPasv(text, 1)
       IN IF code = <<"2", "2", "7">> /\ g # <<>>
            THEN Put(Put(m3, "passive_ip",
                         ToString(g[1]) \o "." \o ToString(g[2]) \o "." \o ToString(g[3])
                           \o "." \o ToString(g[4])),
                     "passive_port", g[5] * 256 + g[6])
            ELSE m3

\* the try body of FTPProtocolHandler.parse_packet
FtpParseBody(d, direction) ==
  LET text == Strip(DecodeText(d)) IN
  [meta |-> IF direction = C2S THEN FtpCommandMeta(text) ELSE FtpResponseMeta(text),
   exc |-> "none"]

\* faulty variant: parse_packet without its except clause
ParseCatchesNothing(exc) == FALSE

\* `except Exception as e` of every parse_packet: which exceptions of the body it catches
ParseCatches(exc) == TRUE

\* the try body of the parse_packet of each handler
ParseBody(protocol, d, direction) ==
  CASE protocol = "http" -> HttpParseBody(d, direction)
    [] protocol = "ftp" -> FtpParseBody(d, direction)
    [] protocol = "dns" -> DnsParseBody(d)
    [] protocol = "telnet" -> TelnetParseBody(d)

\* parse_packet: the metadata returned, or the exception that reaches the caller; an
\* exception caught sets metadata['parse_error'] on the metadata built so far
ParsePacket(protocol, d, direction) ==
  LET r == ParseBody(protocol, d, direction) IN
  IF r.exc = "none" THEN [meta |-> r.meta, raised |-> "none"]
  ELSE IF ParseCatches(r.exc) THEN [meta |-> Put(r.meta, "parse_error", r.exc), raised |-> "none"]
  ELSE [meta |-> EmptyMeta, raised |-> r.exc]

(***************************************************************************)
(* Packet capture: BaseProtocolHandler.create_packet, and one read of a    *)
(* handler that is captured, logged and forwarded.                         *)
(***************************************************************************)

\* the longest input enumerated exhaustively for the parsers
MaxData == 3

\* the sequences over S of length at most n
RECURSIVE SeqsUpTo(_, _)
SeqsUpTo(S, n) ==
  IF n = 0 THEN {<<>>}
  ELSE LET shorter == SeqsUpTo(S, n - 1) IN
       shorter \cup {Append(q, b) : q \in {r \in shorter : Len(r) = n - 1}, b \in S}

\* a 12-byte DNS header with the given id, flags, question and answer counts
DnsHeader(id, flags, qdcount, ancount) ==
  <<id \div 256, id % 256, flags \div 256, flags % 256,
    qdcount \div 256, qdcount % 256, ancount \div 256, ancount % 256, 0, 0, 0, 0>>

\* DNS samples: well-formed and malformed messages
DnsSamples ==
  { DnsHeader(4660, 256, 1, 0) \o <<1, 65, 0, 0, 1, 0, 1>>,           \* query a  A  IN
    DnsHeader(4660, 33152, 1, 1) \o <<1, 65, 1, 65, 0, 0, 28, 0, 1>>, \* response a.a  AAAA  IN
    DnsHeader(4660, 256, 1, 0) \o <<1, 65, 0, 0, 99, 0, 9>>,          \* unknown type and class
    DnsHeader(4660, 256, 1, 0) \o <<5, 65, 65>>,                      \* label longer than the data
    DnsHeader(4660, 33152, 1, 1) \o <<192, 12, 0, 1, 0, 1>>,          \* compression pointer
    DnsHeader(4660, 256, 1, 0),                                       \* question missing
    <<18, 52, 1, 0, 0, 1, 0, 0, 0, 0, 0>> }                           \* 11 bytes

\* DNS inputs: truncated headers, and headers of queries and responses followed by
\* every short question section
DnsInputs ==
  {<<>>, <<0>>} \cup DnsSamples
    \cup {DnsHeader(4660, f, q, a) \o b :
            f \in {0, 256, 33152, 43011}, q \in {0, 1}, a \in {0, 1, 12},
            b \in SeqsUpTo({0, 1, 65, 192}, MaxData)}

\* Telnet samples: text with a negotiation and a subnegotiation
TelnetSamples ==
  { <<65, 32, 65, IAC, WILL, OPT_TERM_TYPE, IAC, SB, OPT_TERM_TYPE, 1, IAC, SE>>,
    <<IAC, SB, OPT_TERM_TYPE, 65>> }

\* Telnet inputs: every short sequence of command and text bytes
TelnetInputs == SeqsUpTo(TelnetBytes \cup {OPT_TERM_TYPE, 32}, MaxData) \cup TelnetSamples

\* HTTP samples: a request and a response
HttpSamples ==
  { <<"GET", SP, "/", SP, "HTTP/1.1", CR, LF, "Host", COLON, SP, "example.com", CR, LF,
      CR, LF>>,
    <<"HTTP/1.1", SP, "200", SP, "OK", CR, LF, "Content-Type", COLON, SP, "text/html",
      CR, LF, CR, LF, "Hello", BadByte>> }

\* HTTP inputs: every short sequence of separators and words
HttpInputs ==
  SeqsUpTo({CR, LF, SP, COLON, "GET", "Content-Type", "text/html", BadByte}, MaxData)
    \cup HttpSamples

\* FTP samples: commands and responses
FtpSamples ==
  { <<"RETR", SP, "file.txt", CR, LF>>,
    <<"2", "2", "7", SP, "Entering", SP, "Passive", SP, "Mode", SP,
      "(", "1", "0", ",", "0", ",", "0", ",", "7", ",", "1", "9", ",", "2", ")", CR, LF>>,
    <<"2", "2", "7", SP, "(", "1", ",", "2", ")">>,
    <<"5", "3", "0", SP, "Login", CR, LF>> }

\* FTP inputs: every short sequence of separators, words and digits
FtpInputs ==
  SeqsUpTo({CR, SP, "USER", "pass", "bob", "2", "7", BadByte}, MaxData) \cup FtpSamples

\* the inputs explored for the parser of each protocol
Inputs(protocol) ==
  CASE protocol = "http" -> HttpInputs
    [] protocol = "ftp" -> FtpInputs
    [] protocol = "dns" -> DnsInputs
    [] protocol = "telnet" -> TelnetInputs

\* the reads explored for packet capture: the samples and the one-byte reads
Reads(protocol) ==
  {d \in Inputs(protocol) : Len(d) = 1}
    \cup (CASE protocol = "http" -> HttpSamples
            [] protocol = "ftp" -> FtpSamples
            [] protocol = "dns" -> DnsSamples
            [] protocol = "telnet" -> TelnetSamples)

\* the values of the per-protocol inspection_mode setting
InspectionModes == {"headers", "parsed", "both"}

\* handler.client_address
ClientAddress == "client_address"
\* the address the upstream TCP connection was made to
UpstreamAddress == "upstream_address"

\* self.server_socket.getpeername(): the upstream socket of HTTP, FTP and Telnet is a
\* connected TCP socket; the DNS upstream socket is a UDP socket that is never
\* connected (sendto is used), and getpeername raises OSError (ENOTCONN) on it
GetPeerName(protocol) ==
  IF protocol = "dns" THEN [addr |-> "none", exc |-> "OSError"]
  ELSE [addr |-> UpstreamAddress, exc |-> "none"]

\* get_protocol_name of each handler class: the tag it returns
get_protocol_name(protocol) ==
  CASE protocol = "http" -> "http"
    [] protocol = "ftp" -> "ftp"
    [] protocol = "dns" -> "dns"
    [] protocol = "telnet" -> "telnet"

\* Packet.__init__ of protocols/base.py
NewPacket(d, source, destination, protocol) ==
  [data |-> d, source |-> source, destination |-> destination, protocol |-> protocol,
   paused |-> FALSE, metadata |-> EmptyMeta]

\* faulty variant: every inspection mode parses
ParsingModesAll == InspectionModes

\* `if self.inspection_mode in ['parsed', 'both']`
ParsingModes == {"parsed", "both"}

\* faulty variant: source and destination the same way round in both directions
EndpointsClientFirst(direction, peer) == [source |-> ClientAddress, destination |-> peer]

\* create_packet: source and destination from the direction
Endpoints(direction, peer) ==
  IF direction = C2S
    THEN [source |-> ClientAddress, destination |-> peer]
    ELSE [source |-> peer, destination |-> ClientAddress]

\* faulty variant: a packet is never paused at capture
PausedAtCaptureNever(pbd) == FALSE

\* create_packet: packet.paused = self.pause_by_default
PausedAtCapture(pbd) == pbd

\* BaseProtocolHandler.create_packet: the packet returned, the exception that reaches
\* the caller, and the number of parse_packet calls made
create_packet(protocol, mode, pbd, d, direction) ==
  LET peer == GetPeerName(protocol) IN
  IF peer.exc # "none" THEN [packet |-> NoCapture, raised |-> peer.exc, parses |-> 0]
  ELSE LET e == Endpoints(direction, peer.addr)
           p == NewPacket(d, e.source, e.destination, get_protocol_name(protocol))
       IN IF mode \in ParsingModes
            THEN LET r == ParsePacket(protocol, d, direction) IN
                 IF r.raised # "none"
                   THEN [packet |-> NoCapture, raised |-> r.raised, parses |-> 1]
                   ELSE [packet |-> [p EXCEPT !.metadata = r.meta, !.paused = PausedAtCapture(pbd)],
                         raised |-> "none", parses |-> 1]
            ELSE [packet |-> [p EXCEPT !.paused = PausedAtCapture(pbd)],
                  raised |-> "none", parses |-> 0]

\* parse_packet of some handler is about to be called on some input
InitParse ==
  /\ ServerInit
  /\ TelnetIdle
  /\ RelayIdle
  /\ PacketIdle
  /\ HttpIdle
  /\ pause_by_default = FALSE
  /\ hproto \in enabled
  /\ inspection_mode = "both"
  /\ hdir \in {C2S, S2C}
  /\ hdata \in Inputs(hproto)
  /\ hpc = "call"
  /\ hmeta = EmptyMeta
  /\ hraised = "none"
  /\ hpacket = NoCapture
  /\ hparses = 0

\* a handler of some protocol and configuration has read some bytes
InitCapture ==
  /\ ServerInit
  /\ TelnetIdle
  /\ RelayIdle
  /\ PacketIdle
  /\ HttpIdle
  /\ hproto \in enabled
  /\ inspection_mode \in InspectionModes
  /\ hdir \in {C2S, S2C}
  /\ hdata \in Reads(hproto)
  /\ hpc = "call"
  /\ hmeta = EmptyMeta
  /\ hraised = "none"
  /\ hpacket = NoCapture
  /\ hparses = 0

\* parse_packet(data, direction) called directly
ParsePacketCall ==
  /\ hpc = "call"
  /\ \E r \in {ParsePacket(hproto, hdata, hdir)} :
       /\ hmeta' = r.meta
       /\ hraised' = r.raised
       /\ hpc' = IF r.raised = "none" THEN "parsed" ELSE "raised"
  /\ UNCHANGED <<hproto, inspection_mode, hdir, hdata, hpacket, hparses,
                 serverVars, poolVars, pause_by_default, sessVars, telnetVars, relayVars, packetVars, httpVars>>

\* the relay loop read non-empty data: packet = self.create_packet(data, direction)
CreatePacketCall ==
  /\ hpc = "call"
  /\ \E r \in {create_packet(hproto, inspection_mode, pause_by_default, hdata, hdir)} :
       /\ hpacket' = r.packet
       /\ hraised' = r.raised
       /\ hparses' = r.parses
       /\ hpc' = IF r.raised = "none" THEN "captured" ELSE "raised"
  /\ UNCHANGED <<hproto, inspection_mode, hdir, hdata, hmeta,
                 serverVars, poolVars, pause_by_default, sessVars, telnetVars, relayVars, packetVars, httpVars>>

\* self.log_packet(packet): reads the packet (to_dict or its fields), changes nothing
LogPacket ==
  /\ hpc = "captured"
  /\ hpc' = "logged"
  /\ UNCHANGED <<hproto, inspection_mode, hdir, hdata, hmeta, hraised, hpacket, hparses,
                 serverVars, poolVars, pause_by_default, sessVars, telnetVars, relayVars, packetVars, httpVars>>

\* `if packet.paused: logging.info(...)`, then sendall(data) to the other socket
ForwardData ==
  /\ hpc = "logged"
  /\ hpc' = "sent"
  /\ UNCHANGED <<hproto, inspection_mode, hdir, hdata, hmeta, hraised, hpacket, hparses,
                 serverVars, poolVars, pause_by_default, sessVars, telnetVars, relayVars, packetVars, httpVars>>

NextParse == ParsePacketCall

SpecParse == InitParse /\ [][NextParse]_vars

NextCapture ==
  \/ CreatePacketCall
  \/ LogPacket
  \/ ForwardData

SpecCapture == InitCapture /\ [][NextCapture]_vars

(***************************************************************************)
(* Properties of parse_packet and of packet capture.                       *)
(***************************************************************************)

\* C12: for each handler and both directions, parse_packet returns a metadata mapping
\* for every input (empty, truncated and malformed included) and no exception reaches
\* its caller; the metadata has a parse_error field exactly when the body failed
C12_ParseNeverRaises ==
  /\ hpc \in {"call", "parsed"}
  /\ hpc = "parsed" =>
       /\ hraised = "none"
       /\ "parse_error" \in DOMAIN hmeta <=> ParseBody(hproto, hdata, hdir).exc # "none"

\* C12: a parse whose body failed has returned, with the failure in the metadata
C12_Witness ==
  /\ hpc = "parsed"
  /\ hraised = "none"
  /\ "parse_error" \in DOMAIN hmeta

\* C14: a failed parse leaves only the parse-error marker in the metadata
C14_FailedParseOnlyMarker ==
  (hpc = "parsed" /\ "parse_error" \in DOMAIN hmeta) => DOMAIN hmeta = {"parse_error"}

\* the fields decoded before the failure stay in the metadata (DNS header fields)
FailedParseKeepsDecodedFields ==
  (hpc = "parsed" /\ "parse_error" \in DOMAIN hmeta) =>
    /\ hproto = "dns"
    /\ DOMAIN hmeta = DOMAIN DnsHeaderMeta(hdata) \cup {"parse_error"}
    /\ \A k \in DOMAIN DnsHeaderMeta(hdata) : hmeta[k] = DnsHeaderMeta(hdata)[k]

\* C13: packet capture never fails: for every non-empty read of any handler, in either
\* direction, create_packet returns a Packet and the relay loop goes on to forward
C13_CaptureNeverFails ==
  hpc # "call" => (hpc # "raised" /\ hraised = "none" /\ hpacket # NoCapture)

\* capture fails for every read of the DNS handler and for no read of the others
CaptureFailsExactlyForDns ==
  hpc # "call" => (hpc = "raised" <=> hproto = "dns")

\* a packet was returned by create_packet
Captured == hpc \in {"captured", "logged", "sent"}

\* C15: create_packet assigns the endpoints from the direction (client_to_server: the
\* client address to the upstream peer address; server_to_client: the reverse) and
\* the packet's protocol is the tag of the owning handler
C15_EndpointsFollowDirection ==
  Captured =>
    /\ hdir = C2S => (hpacket.source = ClientAddress /\ hpacket.destination = UpstreamAddress)
    /\ hdir = S2C => (hpacket.source = UpstreamAddress /\ hpacket.destination = ClientAddress)
    /\ hpacket.protocol = hproto
    /\ hpacket.data = hdata

\* C15: a server_to_client packet was captured
C15_Witness ==
  /\ hpc = "captured"
  /\ hdir = S2C
  /\ hpacket.source = UpstreamAddress

\* create_packet has parsed exactly when the mode asks for it, the metadata is the
\* result of that one parse, and paused is the pause_by_default setting
MetadataByMode ==
  /\ hparses <= 1
  /\ Captured =>
       /\ hparses = 1 <=> inspection_mode \in {"parsed", "both"}
       /\ inspection_mode = "headers" => hpacket.metadata = EmptyMeta
       /\ inspection_mode \in {"parsed", "both"} =>
            hpacket.metadata = ParsePacket(hproto, hdata, hdir).meta
       /\ hpacket.paused = pause_by_default

\* a step taken after create_packet returned, up to and including the forwarding
\* of the bytes, leaves the packet as create_packet returned it
PacketKeptUntilForwarded ==
  hpc \in {"captured", "logged"} => (hpacket' = hpacket /\ hparses' = hparses)

\* C16: create_packet populates metadata, by one call of parse_packet, iff the
\* inspection mode is 'parsed' or 'both' (it stays empty in 'headers' mode), and sets
\* paused to pause_by_default; the metadata is set at most once and does not change
\* between the return of create_packet and the forwarding of the bytes
C16_MetadataSetOnceByMode == []MetadataByMode /\ [][PacketKeptUntilForwarded]_vars

\* C16: a packet captured in 'headers' mode with pause_by_default set was forwarded
\* with empty metadata
C16_Witness ==
  /\ hpc = "sent"
  /\ inspection_mode = "headers"
  /\ pause_by_default
  /\ hpacket.paused
  /\ hpacket.metadata = EmptyMeta

\* a packet captured in 'parsed' mode was forwarded with its decoded metadata
ParsedPacketForwarded ==
  /\ hpc = "sent"
  /\ inspection_mode = "parsed"
  /\ hparses = 1
  /\ hpacket.metadata # EmptyMeta

(***************************************************************************)
(* proxy.packet.Packet: set_pause and modify_data.                         *)
(***************************************************************************)

\* the longest data of a proxy.packet.Packet explored
MaxPacketData == 2

\* Python values passed to modify_data: their type and their content
BytesValues == {[type |-> "bytes", value |-> v] : v \in SeqsUpTo({0, 65, 255}, MaxPacketData)}
OtherValues ==
  { [type |-> "str", value |-> <<65>>],
    [type |-> "bytearray", value |-> <<65>>],
    [type |-> "NoneType", value |-> <<>>],
    [type |-> "int", value |-> <<65>>],
    [type |-> "list", value |-> <<65, 255>>] }
PyValues == BytesValues \cup OtherValues

\* True / False as returned to the caller
PyBool(b) == IF b THEN "True" ELSE "False"

\* Packet.__init__ of proxy/packet.py
NewProxyPacket(d, source, destination, protocol, direction) ==
  [data |-> d, source |-> source, destination |-> destination, protocol |-> protocol,
   direction |-> direction, paused |-> FALSE, modified |-> FALSE, metadata |-> EmptyMeta]

\* faulty variant: anything that holds bytes is accepted
IsInstanceBytesLike(v) == v.type \in {"bytes", "bytearray", "list"}

\* isinstance(new_data, bytes)
IsInstanceBytes(v) == v.type = "bytes"

\* Packet.set_pause(paused): the packet after the call and the value returned
set_pause(p, paused) ==
  [packet |-> [p EXCEPT !.paused = paused], ret |-> PyBool(paused)]

\* Packet.modify_data(new_data): the packet after the call and the value returned
modify_data(p, new_data) ==
  IF ~IsInstanceBytes(new_data) THEN [packet |-> p, ret |-> PyBool(FALSE)]
  ELSE [packet |-> [p EXCEPT !.data = new_data, !.modified = TRUE], ret |-> PyBool(TRUE)]

\* a proxy.packet.Packet has just been constructed from captured bytes
InitPacketOps ==
  /\ ServerInit
  /\ TelnetIdle
  /\ RelayIdle
  /\ CaptureIdle
  /\ HttpIdle
  /\ \E d \in BytesValues, direction \in {C2S, S2C} :
       upacket = NewProxyPacket(d, ClientAddress, UpstreamAddress, "http", direction)
  /\ uret = "none"
  /\ ucall = [op |-> "none"]

\* packet.set_pause(paused)
SetPause ==
  \E paused \in BOOLEAN :
    /\ \E r \in {set_pause(upacket, paused)} :
         /\ upacket' = r.packet
         /\ uret' = r.ret
    /\ ucall' = [op |-> "set_pause", paused |-> paused]
    /\ UNCHANGED <<serverVars, poolVars, pause_by_default, sessVars, telnetVars, relayVars, captureVars, httpVars>>

\* packet.modify_data(new_data)
ModifyData ==
  \E new_data \in PyValues :
    /\ \E r \in {modify_data(upacket, new_data)} :
         /\ upacket' = r.packet
         /\ uret' = r.ret
    /\ ucall' = [op |-> "modify_data", new_data |-> new_data]
    /\ UNCHANGED <<serverVars, poolVars, pause_by_default, sessVars, telnetVars, relayVars, captureVars, httpVars>>

NextPacketOps ==
  \/ SetPause
  \/ ModifyData

SpecPacketOps == InitPacketOps /\ [][NextPacketOps]_vars

\* what one call of modify_data does
ModifyDataEffect ==
  ucall'.op = "modify_data" =>
    IF ucall'.new_data.type = "bytes"
      THEN /\ uret' = "True"
           /\ upacket' = [upacket EXCEPT !.data = ucall'.new_data, !.modified = TRUE]
      ELSE /\ uret' = "False"
           /\ upacket' = upacket

\* what one call of set_pause does
SetPauseEffect ==
  ucall'.op = "set_pause" =>
    /\ uret' = PyBool(ucall'.paused)
    /\ upacket' = [upacket EXCEPT !.paused = ucall'.paused]

\* a packet just constructed is neither modified nor paused
UnmodifiedAtConstruction == ucall.op = "none" => (~upacket.modified /\ ~upacket.paused)

\* C17: modify_data with an argument that is not bytes returns failure and leaves data
\* and modified unchanged; with bytes it replaces data, sets modified and returns
\* success; modified is false at construction, and set_pause changes only paused and
\* returns the new value
C17_ModifyAndPauseEffects ==
  /\ []UnmodifiedAtConstruction
  /\ [][ModifyDataEffect /\ SetPauseEffect]_vars
  /\ [][upacket'.modified # upacket.modified =>
          (ucall'.op = "modify_data" /\ ucall'.new_data.type = "bytes" /\ upacket'.modified)]_vars

\* C17: a non-bytes argument was rejected on a packet never modified, after a pause
C17_Witness ==
  /\ ucall.op = "modify_data"
  /\ ucall.new_data.type = "bytearray"
  /\ uret = "False"
  /\ upacket.paused
  /\ ~upacket.modified

\* a bytes argument replaced the data
DataReplaced ==
  /\ ucall.op = "modify_data"
  /\ ucall.new_data.type = "bytes"
  /\ uret = "True"
  /\ upacket.modified
  /\ upacket.data = ucall.new_data

(***************************************************************************)
(* One HTTP session: HTTPProtocolHandler._setup_server_connection and      *)
(* _proxy_data, with the bytes that travel in each direction.              *)
(***************************************************************************)

\* `len(header_data) > 65536`: the limit, scaled down to the requests explored
MaxHeaderSize == 40

\* the chunks the upstream server sends before it closes
MaxResp == 1

\* a header value of 20 characters
LongWord == "aaaaaaaaaaaaaaaaaaaa"

GetLine == <<"GET", SP, "/", SP, "HTTP/1.1", CR, LF>>
HostLine(value) == <<"Host", COLON, SP>> \o value \o <<CR, LF>>
BlankLine == <<CR, LF>>

\* what the client sends over a session: the request, then the bytes that follow it
HttpSessions ==
  { GetLine \o HostLine(<<"h">>) \o BlankLine \o <<"body", "more">>,
    GetLine \o HostLine(<<"h", COLON, "8", "0", "8", "0">>) \o BlankLine,
    <<"CONNECT", SP, "h", COLON, "4", "4", "3", SP, "HTTP/1.1", CR, LF, CR, LF, "tls", "data">>,
    <<"CONNECT", SP, "h", SP, "HTTP/1.1", CR, LF, CR, LF>>,
    <<"GET", SP, "http://", "h", "/", SP, "HTTP/1.1", CR, LF, CR, LF>>,
    GetLine \o BlankLine,
    GetLine \o HostLine(<<"h", COLON, "x">>) \o BlankLine,
    GetLine \o HostLine(<<"h", COLON, "0">>) \o BlankLine,
    GetLine \o HostLine(<<"h">>),
    GetLine \o HostLine(<<"h">>) \o <<"X", COLON, SP, LongWord, CR, LF>> \o BlankLine,
    <<>> }

\* b'HTTP/1.1 200 Connection Established\r\n\r\n'
Reply200 == <<"HTTP/1.1", SP, "200", SP, "Connection Established", CR, LF, CR, LF>>

\* b'\r\n\r\n' in header_data
ContainsBlankLine(d) == FindBlankLine(d, 1) # 0

\* header_data.startswith(b'CONNECT ')
StartsWithConnect(d) == Len(d) >= 2 /\ d[1] = "CONNECT" /\ d[2] = SP

\* faulty variant: the buffered bytes are replayed upstream for CONNECT too
ForwardsInitialRequestAlways(d) == TRUE

\* the else branch of `if header_data.startswith(b'CONNECT ')` after connect:
\* the buffered request is sent upstream
ForwardsInitialRequest(d) == ~StartsWithConnect(d)

\* faulty variant: no limit on the buffered header bytes
TooLargeNever(d) == FALSE

\* `if len(header_data) > 65536`
TooLarge(d) == TextLen(d) > MaxHeaderSize

\* int(s) of a str: its value, or ValueError
PyInt(s) ==
  IF IsDigit(s) THEN [value |-> IntOf(s, 0), exc |-> "none"]
  ELSE [value |-> 0, exc |-> "ValueError"]

\* host_parts = text.split(':'); host = host_parts[0];
\* port = int(host_parts[1]) if len(host_parts) > 1 else default
HostPort(text, default) ==
  LET host_parts == SplitChar(text, COLON, -1, <<>>) IN
  IF Len(host_parts) > 1
    THEN [host |-> host_parts[1], port |-> PyInt(host_parts[2]).value,
          exc |-> PyInt(host_parts[2]).exc]
    ELSE [host |-> host_parts[1], port |-> default, exc |-> "none"]

\* no target: target_host None (or '') and target_port None (or 0)
NoTarget == [host |-> <<>>, port |-> 0, exc |-> "none"]

\* the first index from k at which the data ends or has an atom of `stop`
RunEnd(d, k, stop) ==
  CHOOSE e \in k..(Len(d) + 1) :
    /\ e = Len(d) + 1 \/ d[e] \in stop
    /\ \A j \in k..(e - 1) : d[j] \notin stop

\* the CONNECT branch: the target from the second word of the first line
ConnectTarget(d) ==
  LET connect_line == DecodeText(Head(SplitCRLF(d, <<>>)))
      connect_parts == SplitChar(connect_line, SP, -1, <<>>)
  IN IF Len(connect_parts) >= 2 THEN HostPort(connect_parts[2], 443) ELSE NoTarget

\* re.search(rb'Host: ([^\r\n]+)', header_data): the group of the leftmost match,
\* <<>> when there is none
HostMatch(d) ==
  LET starts == {k \in 1..(Len(d) - 3) :
                   d[k] = "Host" /\ d[k + 1] = COLON /\ d[k + 2] = SP /\ d[k + 3] \notin {CR, LF}}
  IN IF starts = {} THEN <<>>
     ELSE LET k == CHOOSE i \in starts : \A j \in starts : i <= j
          IN SubSeq(d, k + 3, RunEnd(d, k + 3, {CR, LF}) - 1)

\* the methods that match [A-Z]+ and the schemes that match http[s]?://
UpperWords == {"GET", "POST", "CONNECT"}
Schemes == {"http://", "https://"}

\* re.search(r'^[A-Z]+ (http[s]?://[^/\s]+)', request_line) and urlparse of its group:
\* hostname, and `url.port or (443 if url.scheme == 'https' else 80)`
AbsoluteUriTarget(d) ==
  LET request_line == DecodeText(Head(SplitCRLF(d, <<>>)))
      stop == {"/"} \cup Whitespace
  IN IF /\ Len(request_line) >= 4
        /\ request_line[1] \in UpperWords
        /\ request_line[2] = SP
        /\ request_line[3] \in Schemes
        /\ request_line[4] \notin stop
       THEN LET netloc == SubSeq(request_line, 4, RunEnd(request_line, 4, stop) - 1)
                parts == SplitChar(netloc, COLON, -1, <<>>)
                default == IF request_line[3] = "https://" THEN 443 ELSE 80
            IN IF Len(parts) = 1 \/ parts[2] = <<>>
                 THEN [host |-> parts[1], port |-> default, exc |-> "none"]
                 ELSE [host |-> parts[1],
                       port |-> IF PyInt(parts[2]).value = 0 THEN default
                                ELSE PyInt(parts[2]).value,
                       exc |-> PyInt(parts[2]).exc]
       ELSE NoTarget

\* the target _setup_server_connection extracts from the buffered bytes
DetermineTarget(d) ==
  IF StartsWithConnect(d) THEN ConnectTarget(d)
  ELSE IF HostMatch(d) # <<>> THEN HostPort(DecodeText(HostMatch(d)), 80)
  ELSE AbsoluteUriTarget(d)

\* `if not self.target_host or not self.target_port` fails
TargetKnown(t) == t.exc = "none" /\ t.host # <<>> /\ t.port # 0

\* an HTTP handler was constructed for a client that will send some session
InitHttp ==
  /\ ServerInit
  /\ enabled = {"http"}
  /\ pause_by_default = FALSE
  /\ TelnetIdle
  /\ RelayIdle
  /\ CaptureIdle
  /\ PacketIdle
  /\ xreq \in HttpSessions
  /\ xclosed \in BOOLEAN
  /\ xoff = 0
  /\ header_data = <<>>
  /\ initial_request = Unset
  /\ target_host = <<>>
  /\ target_port = 0
  /\ xssock = "none"
  /\ xcsock = "open"
  /\ up_sent = <<>>
  /\ cl_sent = <<>>
  /\ skip_client_first = FALSE
  /\ xrunning = FALSE
  /\ xtodo = <<>>
  /\ xdata = <<>>
  /\ xresp = 0
  /\ xfail = "none"
  /\ xlost = FALSE
  /\ xpc = "start"

\* what the HTTP session actions leave alone
HttpFrame == UNCHANGED <<serverVars, poolVars, pause_by_default, sessVars, telnetVars, relayVars,
                         captureVars, packetVars, xreq, xclosed>>

\* handle_connection: self.running = True, then _setup_server_connection()
HttpStart ==
  /\ xpc = "start"
  /\ xrunning' = TRUE
  /\ xpc' = "headers"
  /\ HttpFrame
  /\ UNCHANGED <<xoff, header_data, initial_request, target_host, target_port, xssock,
                 xcsock, up_sent, cl_sent, skip_client_first, xtodo, xdata, xresp, xfail,
                 xlost>>

\* the header loop: recv returns a chunk, header_data += chunk, then the size check
HttpRecvHeaders ==
  /\ xpc = "headers"
  /\ ~ContainsBlankLine(header_data)
  /\ \E n \in 1..(Len(xreq) - xoff) :
       /\ header_data' = header_data \o SubSeq(xreq, xoff + 1, xoff + n)
       /\ xoff' = xoff + n
  /\ IF TooLarge(header_data')
       THEN xfail' = "too_large" /\ xpc' = AfterException
       ELSE xfail' = xfail /\ xpc' = xpc
  /\ HttpFrame
  /\ UNCHANGED <<initial_request, target_host, target_port, xssock, xcsock, up_sent,
                 cl_sent, skip_client_first, xrunning, xtodo, xdata, xresp, xlost>>

\* the header loop: recv returns b'' (the client closed): raise
HttpHeadersEOF ==
  /\ xpc = "headers"
  /\ ~ContainsBlankLine(header_data)
  /\ xoff = Len(xreq)
  /\ xclosed
  /\ xfail' = "eof"
  /\ xpc' = AfterException
  /\ HttpFrame
  /\ UNCHANGED <<xoff, header_data, initial_request, target_host, target_port, xssock,
                 xcsock, up_sent, cl_sent, skip_client_first, xrunning, xtodo, xdata, xresp,
                 xlost>>

\* the header block is complete: self.initial_request = header_data, the target is
\* extracted; int() may raise ValueError; no target: raise
HttpTarget ==
  /\ xpc = "headers"
  /\ ContainsBlankLine(header_data)
  /\ initial_request' = header_data
  /\ \E t \in {DetermineTarget(header_data)} :
       /\ target_host' = t.host
       /\ target_port' = IF t.exc = "none" THEN t.port ELSE 0
       /\ xfail' = IF t.exc # "none" THEN t.exc
                   ELSE IF ~TargetKnown(t) THEN "no_target" ELSE xfail
       /\ xpc' = IF TargetKnown(t) THEN "connect" ELSE AfterException
  /\ HttpFrame
  /\ UNCHANGED <<xoff, header_data, xssock, xcsock, up_sent, cl_sent, skip_client_first,
                 xrunning, xtodo, xdata, xresp, xlost>>

\* socket.socket(...) and connect((target_host, target_port)) succeed
HttpConnectOk ==
  /\ xpc = "connect"
  /\ xssock' = "connected"
  /\ xpc' = "reply"
  /\ HttpFrame
  /\ UNCHANGED <<xoff, header_data, initial_request, target_host, target_port, xcsock,
                 up_sent, cl_sent, skip_client_first, xrunning, xtodo, xdata, xresp, xfail,
                 xlost>>

\* the socket is created and connect raises
HttpConnectFail ==
  /\ xpc = "connect"
  /\ xssock' = "created"
  /\ xfail' = "connect"
  /\ xpc' = AfterException
  /\ HttpFrame
  /\ UNCHANGED <<xoff, header_data, initial_request, target_host, target_port, xcsock,
                 up_sent, cl_sent, skip_client_first, xrunning, xtodo, xdata, xresp, xlost>>

\* after connect: the 200 reply to the client for CONNECT, the buffered request to the
\* upstream server otherwise; _setup_server_connection returns
HttpSetupSend ==
  /\ xpc = "reply"
  /\ IF ForwardsInitialRequest(header_data)
       THEN up_sent' = up_sent \o initial_request /\ cl_sent' = cl_sent
       ELSE cl_sent' = cl_sent \o Reply200 /\ up_sent' = up_sent
  /\ xpc' = "proxy"
  /\ HttpFrame
  /\ UNCHANGED <<xoff, header_data, initial_request, target_host, target_port, xssock,
                 xcsock, skip_client_first, xrunning, xtodo, xdata, xresp, xfail, xlost>>

\* that sendall raises
HttpSetupSendFail ==
  /\ xpc = "reply"
  /\ xfail' = "send"
  /\ xpc' = AfterException
  /\ HttpFrame
  /\ UNCHANGED <<xoff, header_data, initial_request, target_host, target_port, xssock,
                 xcsock, up_sent, cl_sent, skip_client_first, xrunning, xtodo, xdata, xresp,
                 xlost>>

\* _proxy_data starts: skip_client_first = hasattr(self, 'initial_request') and not
\* self.initial_request.startswith(b'CONNECT ')
HttpProxyStart ==
  /\ xpc = "proxy"
  /\ skip_client_first' = (initial_request # Unset /\ ~StartsWithConnect(initial_request))
  /\ xpc' = "loop"
  /\ HttpFrame
  /\ UNCHANGED <<xoff, header_data, initial_request, target_host, target_port, xssock,
                 xcsock, up_sent, cl_sent, xrunning, xtodo, xdata, xresp, xfail, xlost>>

\* while self.running
HttpLoopCheck ==
  /\ xpc = "loop"
  /\ xpc' = IF xrunning THEN "select" ELSE "cleanup"
  /\ HttpFrame
  /\ UNCHANGED <<xoff, header_data, initial_request, target_host, target_port, xssock,
                 xcsock, up_sent, cl_sent, skip_client_first, xrunning, xtodo, xdata, xresp,
                 xfail, xlost>>

\* the sockets select can report readable: the client while it has bytes to deliver or
\* has closed, the server (it has a chunk to deliver, or has closed after MaxResp)
HttpReadable ==
  { r \in ReadableLists :
      Contains(r, ClientSock) => (xoff < Len(xreq) \/ xclosed) }

\* select returns a non-empty readable list
HttpSelectReady ==
  /\ xpc = "select"
  /\ \E r \in HttpReadable : xtodo' = r
  /\ xpc' = "recv"
  /\ HttpFrame
  /\ UNCHANGED <<xoff, header_data, initial_request, target_host, target_port, xssock,
                 xcsock, up_sent, cl_sent, skip_client_first, xrunning, xdata, xresp, xfail,
                 xlost>>

\* select times out: the for loop has no iteration, then
\* `if skip_client_first: skip_client_first = False`
HttpSelectTimeout ==
  /\ xpc = "select"
  /\ skip_client_first' = FALSE
  /\ xpc' = "loop"
  /\ HttpFrame
  /\ UNCHANGED <<xoff, header_data, initial_request, target_host, target_port, xssock,
                 xcsock, up_sent, cl_sent, xrunning, xtodo, xdata, xresp, xfail, xlost>>

\* `if exceptional: break`
HttpSelectExceptional ==
  /\ xpc = "select"
  /\ xpc' = "cleanup"
  /\ HttpFrame
  /\ UNCHANGED <<xoff, header_data, initial_request, target_host, target_port, xssock,
                 xcsock, up_sent, cl_sent, skip_client_first, xrunning, xtodo, xdata, xresp,
                 xfail, xlost>>

\* the for loop goes on to the next readable socket; after the last one the pass ends
\* with `if skip_client_first: skip_client_first = False`
HttpNextSock ==
  /\ xtodo' = Tail(xtodo)
  /\ IF Tail(xtodo) = <<>>
       THEN xpc' = "loop" /\ skip_client_first' = FALSE
       ELSE xpc' = "recv" /\ skip_client_first' = skip_client_first

\* the client socket is readable while skip_client_first is set: neither branch of the
\* if/elif matches, nothing is read
HttpSkipClient ==
  /\ xpc = "recv"
  /\ Head(xtodo) = ClientSock
  /\ skip_client_first
  /\ HttpNextSock
  /\ HttpFrame
  /\ UNCHANGED <<xoff, header_data, initial_request, target_host, target_port, xssock,
                 xcsock, up_sent, cl_sent, xrunning, xdata, xresp, xfail, xlost>>

\* recv on the client socket returns a chunk (captured and logged, then to be sent)
HttpRecvClient ==
  /\ xpc = "recv"
  /\ Head(xtodo) = ClientSock
  /\ ~skip_client_first
  /\ \E n \in 1..(Len(xreq) - xoff) :
       /\ xdata' = SubSeq(xreq, xoff + 1, xoff + n)
       /\ xoff' = xoff + n
  /\ xpc' = "send"
  /\ HttpFrame
  /\ UNCHANGED <<header_data, initial_request, target_host, target_port, xssock, xcsock,
                 up_sent, cl_sent, skip_client_first, xrunning, xtodo, xresp, xfail, xlost>>

\* recv on the client socket returns b'': running = False, break
HttpRecvClientEOF ==
  /\ xpc = "recv"
  /\ Head(xtodo) = ClientSock
  /\ ~skip_client_first
  /\ xoff = Len(xreq)
  /\ xclosed
  /\ xrunning' = RunningAfterEOF
  /\ xtodo' = <<>>
  /\ xpc' = "loop"
  /\ HttpFrame
  /\ UNCHANGED <<xoff, header_data, initial_request, target_host, target_port, xssock,
                 xcsock, up_sent, cl_sent, skip_client_first, xdata, xresp, xfail, xlost>>

\* recv on the server socket returns a chunk
HttpRecvServer ==
  /\ xpc = "recv"
  /\ Head(xtodo) = ServerSock
  /\ xresp < MaxResp
  /\ xdata' = <<"response">>
  /\ xresp' = xresp + 1
  /\ xpc' = "send"
  /\ HttpFrame
  /\ UNCHANGED <<xoff, header_data, initial_request, target_host, target_port, xssock,
                 xcsock, up_sent, cl_sent, skip_client_first, xrunning, xtodo, xfail, xlost>>

\* recv on the server socket returns b'': running = False, break, and the pass ends
HttpRecvServerEOF ==
  /\ xpc = "recv"
  /\ Head(xtodo) = ServerSock
  /\ xresp = MaxResp
  /\ xrunning' = RunningAfterEOF
  /\ xtodo' = <<>>
  /\ skip_client_first' = FALSE
  /\ xpc' = "loop"
  /\ HttpFrame
  /\ UNCHANGED <<xoff, header_data, initial_request, target_host, target_port, xssock,
                 xcsock, up_sent, cl_sent, xdata, xresp, xfail, xlost>>

\* sendall of the chunk just read to the other socket
HttpSendOk ==
  /\ xpc = "send"
  /\ IF Head(xtodo) = ClientSock
       THEN up_sent' = up_sent \o xdata /\ cl_sent' = cl_sent
       ELSE cl_sent' = cl_sent \o xdata /\ up_sent' = up_sent
  /\ xdata' = <<>>
  /\ HttpNextSock
  /\ HttpFrame
  /\ UNCHANGED <<xoff, header_data, initial_request, target_host, target_port, xssock,
                 xcsock, xrunning, xresp, xfail, xlost>>

\* sendall raises socket.timeout (the sockets have a 0.1 s timeout) after part of the
\* chunk, possibly none, was sent: `except socket.timeout: continue`
HttpSendTimeout ==
  /\ xpc = "send"
  /\ \E k \in 0..(Len(xdata) - 1) :
       IF Head(xtodo) = ClientSock
         THEN up_sent' = up_sent \o SubSeq(xdata, 1, k) /\ cl_sent' = cl_sent
         ELSE cl_sent' = cl_sent \o SubSeq(xdata, 1, k) /\ up_sent' = up_sent
  /\ xlost' = TRUE
  /\ xdata' = <<>>
  /\ xtodo' = <<>>
  /\ xpc' = AfterTimeout
  /\ HttpFrame
  /\ UNCHANGED <<xoff, header_data, initial_request, target_host, target_port, xssock,
                 xcsock, skip_client_first, xrunning, xresp, xfail>>

\* sendall raises ConnectionResetError or another error: break
HttpSendError ==
  /\ xpc = "send"
  /\ xfail' = "send"
  /\ xdata' = <<>>
  /\ xtodo' = <<>>
  /\ xpc' = AfterReset
  /\ HttpFrame
  /\ UNCHANGED <<xoff, header_data, initial_request, target_host, target_port, xssock,
                 xcsock, up_sent, cl_sent, skip_client_first, xrunning, xresp, xlost>>

\* _cleanup, from the finally of handle_connection
HttpCleanup ==
  /\ xpc = "cleanup"
  /\ xrunning' = FALSE
  /\ xcsock' = "closed"
  /\ xssock' = Closed(xssock)
  /\ xpc' = "done"
  /\ HttpFrame
  /\ UNCHANGED <<xoff, header_data, initial_request, target_host, target_port, up_sent,
                 cl_sent, skip_client_first, xtodo, xdata, xresp, xfail, xlost>>

NextHttp ==
  \/ HttpStart
  \/ HttpRecvHeaders
  \/ HttpHeadersEOF
  \/ HttpTarget
  \/ HttpConnectOk
  \/ HttpConnectFail
  \/ HttpSetupSend
  \/ HttpSetupSendFail
  \/ HttpProxyStart
  \/ HttpLoopCheck
  \/ HttpSelectReady
  \/ HttpSelectTimeout
  \/ HttpSelectExceptional
  \/ HttpSkipClient
  \/ HttpRecvClient
  \/ HttpRecvClientEOF
  \/ HttpRecvServer
  \/ HttpRecvServerEOF
  \/ HttpSendOk
  \/ HttpSendTimeout
  \/ HttpSendError
  \/ HttpCleanup

SpecHttp == InitHttp /\ [][NextHttp]_vars

(***************************************************************************)
(* Properties of the HTTP session.                                         *)
(***************************************************************************)

IsPrefix(a, b) == Len(a) <= Len(b) /\ SubSeq(b, 1, Len(a)) = a

\* the header block was complete and began with CONNECT / did not
ConnectSession == initial_request # Unset /\ StartsWithConnect(initial_request)
PlainSession == initial_request # Unset /\ ~StartsWithConnect(initial_request)

\* the bytes the client sends after the bytes buffered during setup
AfterHeaders == SubSeq(xreq, Len(initial_request) + 1, Len(xreq))

\* host and port as written in the request line `CONNECT host[:port] version`
ConnectLineHost == <<initial_request[3]>>
ConnectLinePort ==
  IF initial_request[4] = COLON
    THEN IntOf(SubSeq(initial_request, 5, RunEnd(initial_request, 5, {SP}) - 1), 0)
    ELSE 443

\* the state part of C18
ConnectTunnelState ==
  ConnectSession =>
    /\ xssock # "none" => (target_host = ConnectLineHost /\ target_port = ConnectLinePort)
    /\ cl_sent # <<>> =>
         (IsPrefix(Reply200, cl_sent) /\ xssock \in {"connected", "closed"} /\ xfail # "connect")
    /\ ~Contains(up_sent, "CONNECT")
    /\ ~xlost => IsPrefix(up_sent, AfterHeaders)
    /\ xfail = "connect" => (cl_sent = <<>> /\ up_sent = <<>> /\ xpc \in {"cleanup", "done"})
    /\ (xfail = "connect" /\ xpc = "done") => (xcsock = "closed" /\ xssock = "closed")

\* the first bytes the client gets in a CONNECT session are sent on a connected
\* upstream socket
ReplyAfterConnect ==
  (ConnectSession /\ cl_sent = <<>> /\ cl_sent' # <<>>) =>
    (xssock = "connected" /\ IsPrefix(Reply200, cl_sent'))

\* C18: for CONNECT host:port the handler connects to host:port (443 when the port is
\* omitted), sends the 200 Connection Established reply only after the upstream
\* connection succeeded and never forwards the CONNECT request upstream; when the
\* connect fails the client gets no 200 reply and the session is cleaned up
C18_ConnectTunnel == []ConnectTunnelState /\ [][ReplyAfterConnect]_vars

\* C18: a CONNECT session without a port was tunnelled to port 443 and has ended
C18_Witness ==
  /\ ConnectSession
  /\ xpc = "done"
  /\ xfail = "none"
  /\ target_port = 443
  /\ initial_request[4] # COLON
  /\ IsPrefix(Reply200, cl_sent)
  /\ up_sent = <<>>

\* a CONNECT session with a port relayed the bytes that followed the request
TunnelRelayed ==
  /\ ConnectSession
  /\ initial_request[4] = COLON
  /\ xpc = "done"
  /\ IsPrefix(Reply200, cl_sent)
  /\ up_sent = <<"tls", "data">>

\* the upstream connect of a CONNECT session failed and the session was cleaned up
ConnectFailedCleaned ==
  /\ ConnectSession
  /\ xfail = "connect"
  /\ xpc = "done"
  /\ cl_sent = <<>>

\* the handler is between two relay reads, or has ended without an error
BetweenReads == xpc \in {"proxy", "loop", "select", "recv", "cleanup", "done"} /\ xfail = "none"

\* C19: for a plain request the buffered request bytes go upstream exactly once, after
\* the connect, and the relay loop neither repeats them nor drops later client bytes:
\* the bytes sent upstream are, in order, the bytes received from the client
C19_UpstreamEqualsClientStream ==
  PlainSession =>
    /\ xssock # "connected" /\ xpc # "done" => up_sent = <<>>
    /\ BetweenReads => up_sent = SubSeq(xreq, 1, xoff)

\* the same, for the sessions in which no sendall of the relay loop timed out
UpstreamEqualsClientStreamWithoutTimeout ==
  (PlainSession /\ ~xlost) =>
    /\ xssock # "connected" /\ xpc # "done" => up_sent = <<>>
    /\ BetweenReads => up_sent = SubSeq(xreq, 1, xoff)

\* the client socket was skipped on the first pass, and the bytes that followed the
\* request were read on a later pass and sent
SkippedThenRelayed ==
  /\ PlainSession
  /\ ~xlost
  /\ xpc = "done"
  /\ Len(initial_request) < Len(xreq)
  /\ up_sent = xreq

\* the request as sent names a target: a CONNECT line, a Host header, or an
\* absolute URI in the request line
NamesTarget(d) ==
  \/ StartsWithConnect(d)
  \/ \E k \in 1..(Len(d) - 3) : d[k] = "Host" /\ d[k + 1] = COLON /\ d[k + 2] = SP
  \/ Len(d) >= 4 /\ d[3] \in Schemes

\* setup failed before a target was known
SetupFailed == xfail \in {"eof", "too_large", "no_target", "ValueError"}

\* C20: when no target can be determined from the client's input, or the buffered
\* bytes exceed the maximum header size, or the client closes before a complete
\* header block, setup fails: no upstream connection is opened, nothing is sent to the
\* client, the relay loop is not entered and cleanup closes the client socket
C20_SetupFailure ==
  /\ SetupFailed =>
       /\ xssock = "none"
       /\ cl_sent = <<>>
       /\ up_sent = <<>>
       /\ xpc \in {"cleanup", "done"}
       /\ xresp = 0 /\ xtodo = <<>>
       /\ xpc = "done" => xcsock = "closed"
  /\ xssock # "none" =>
       /\ ContainsBlankLine(header_data)
       /\ TextLen(header_data) <= MaxHeaderSize
       /\ NamesTarget(header_data)
  /\ (xpc = "headers" /\ ContainsBlankLine(header_data) /\ ~NamesTarget(header_data)) =>
       ~TargetKnown(DetermineTarget(header_data))

\* C20: a complete request without a target failed and the client socket was closed
C20_Witness ==
  /\ xfail = "no_target"
  /\ ~NamesTarget(header_data)
  /\ xpc = "done"
  /\ xcsock = "closed"
  /\ xssock = "none"

\* the header block was too large / the client closed before it was complete
TooLargeFailed == xfail = "too_large" /\ xpc = "done" /\ xcsock = "closed" /\ xssock = "none"
EarlyCloseFailed == xfail = "eof" /\ xpc = "done" /\ xcsock = "closed" /\ xssock = "none"

(***************************************************************************)
(* Well-formed HTTP messages given to HTTPProtocolHandler.parse_packet.    *)
(***************************************************************************)

\* the most header lines of a message explored
MaxHeaders == 2

\* header fields: a name, a value, and whether extra spaces surround the value
HeaderFields ==
  [name : {"Accept", "Set-Cookie"}, value : {"a=1", "b=2"}, pad : BOOLEAN]

\* the line 'Name: value' CR LF of a field ('Name:  value ' CR LF when padded)
HeaderLineOf(h) ==
  <<h.name, COLON, SP>> \o (IF h.pad THEN <<SP, h.value, SP>> ELSE <<h.value>>) \o <<CR, LF>>

\* the header lines of a list of fields, in order
RECURSIVE HeaderLinesOf(_)
HeaderLinesOf(hs) == IF hs = <<>> THEN <<>> ELSE HeaderLineOf(Head(hs)) \o HeaderLinesOf(Tail(hs))

\* the lists of at most MaxHeaders fields
HeaderLists == SeqsUpTo(HeaderFields, MaxHeaders)

\* a request: request line, header lines, blank line
RequestOf(method, path, hs) ==
  <<method, SP, path, SP, "HTTP/1.1", CR, LF>> \o HeaderLinesOf(hs) \o <<CR, LF>>

\* a response: status line, header lines, blank line, body
ResponseOf(code, message, hs, body) ==
  <<"HTTP/1.1", SP, code, SP>> \o message \o <<CR, LF>> \o HeaderLinesOf(hs) \o <<CR, LF>> \o body

Methods == {"GET", "POST"}
Paths == {"/index.html"}
StatusCodes == {"200", "404"}
StatusMessages == {<<"OK">>, <<"Not", SP, "Found">>}
\* bodies: none, text with a byte that is not UTF-8, and one that holds a blank line
Bodies == {<<>>, <<"Hello", BadByte>>, <<"a", CR, LF, CR, LF, "b">>}

HttpRequests == {RequestOf(m, p, hs) : m \in Methods, p \in Paths, hs \in HeaderLists}

HttpResponses ==
  {ResponseOf(c, msg, hs, b) : c \in StatusCodes, msg \in StatusMessages,
                               hs \in HeaderLists, b \in Bodies}

\* parse_packet of the HTTP handler is about to be called on a well-formed message
InitHttpMessages ==
  /\ ServerInit
  /\ TelnetIdle
  /\ RelayIdle
  /\ PacketIdle
  /\ HttpIdle
  /\ enabled = {"http"}
  /\ pause_by_default = FALSE
  /\ hproto = "http"
  /\ inspection_mode = "both"
  /\ hdir \in {C2S, S2C}
  /\ hdata \in HttpRequests \cup HttpResponses
  /\ hpc = "call"
  /\ hmeta = EmptyMeta
  /\ hraised = "none"
  /\ hpacket = NoCapture
  /\ hparses = 0

SpecHttpMessages == InitHttpMessages /\ [][NextParse]_vars

\* the metadata has the field with the value
Has(m, k, v) == k \in DOMAIN m /\ m[k] = v

\* the headers mapping holds every field of the list: its name as written, its value
\* without the surrounding spaces
HoldsEveryHeader(m, hs) ==
  /\ "headers" \in DOMAIN m
  /\ \A i \in 1..Len(hs) : Has(m.headers, <<hs[i].name>>, <<hs[i].value>>)

\* no two fields of the list have the same name
DistinctNames(hs) == \A i, j \in 1..Len(hs) : hs[i].name = hs[j].name => i = j

\* the request that was parsed as a request is RequestOf(method, path, hs)
ParsedRequest(method, path, hs) ==
  hpc = "parsed" /\ hdir = C2S /\ hdata = RequestOf(method, path, hs)

\* the response that was parsed as a response is ResponseOf(code, message, hs, body)
ParsedResponse(code, message, hs, body) ==
  hpc = "parsed" /\ hdir = S2C /\ hdata = ResponseOf(code, message, hs, body)

\* C21: for every valid request, parse_packet(client_to_server) returns the three tokens
\* of the request line as method, path and version, and a headers mapping that holds
\* every header name/value pair of the request (name as written, value trimmed)
C21_RequestRecovered ==
  \A m \in Methods, p \in Paths, hs \in HeaderLists :
    ParsedRequest(m, p, hs) =>
      /\ Has(hmeta, "method", <<m>>)
      /\ Has(hmeta, "path", <<p>>)
      /\ Has(hmeta, "version", <<"HTTP/1.1">>)
      /\ HoldsEveryHeader(hmeta, hs)

\* the request line is always recovered, and every header pair when no header name is
\* repeated; of a repeated name the mapping holds the last value only
RequestRecoveredDistinctNames ==
  \A m \in Methods, p \in Paths, hs \in HeaderLists :
    ParsedRequest(m, p, hs) =>
      /\ Has(hmeta, "method", <<m>>)
      /\ Has(hmeta, "path", <<p>>)
      /\ Has(hmeta, "version", <<"HTTP/1.1">>)
      /\ DistinctNames(hs) => HoldsEveryHeader(hmeta, hs)
      /\ \A i \in 1..Len(hs) :
           (\A j \in (i + 1)..Len(hs) : hs[j].name # hs[i].name) =>
             Has(hmeta.headers, <<hs[i].name>>, <<hs[i].value>>)

\* a request with two padded headers of different names was parsed
RequestWithHeadersParsed ==
  \E m \in Methods, p \in Paths, hs \in HeaderLists :
    /\ ParsedRequest(m, p, hs)
    /\ Len(hs) = 2 /\ DistinctNames(hs) /\ hs[1].pad /\ hs[2].pad
    /\ DOMAIN hmeta.headers = {<<hs[1].name>>, <<hs[2].name>>}

\* C22: for every valid response, parse_packet(server_to_client) returns the version,
\* status code and status message of the status line and every header, and body_length
\* is the number of bytes after the first CR LF CR LF
C22_ResponseRecovered ==
  \A c \in StatusCodes, msg \in StatusMessages, hs \in HeaderLists, b \in Bodies :
    ParsedResponse(c, msg, hs, b) =>
      /\ Has(hmeta, "version", <<"HTTP/1.1">>)
      /\ Has(hmeta, "status_code", <<c>>)
      /\ Has(hmeta, "status_message", msg)
      /\ HoldsEveryHeader(hmeta, hs)
      /\ Has(hmeta, "body_length", TextLen(b))

\* the status line and the body length are always recovered, and every header when no
\* header name is repeated
ResponseRecoveredDistinctNames ==
  \A c \in StatusCodes, msg \in StatusMessages, hs \in HeaderLists, b \in Bodies :
    ParsedResponse(c, msg, hs, b) =>
      /\ Has(hmeta, "version", <<"HTTP/1.1">>)
      /\ Has(hmeta, "status_code", <<c>>)
      /\ Has(hmeta, "status_message", msg)
      /\ DistinctNames(hs) => HoldsEveryHeader(hmeta, hs)
      /\ Has(hmeta, "body_length", TextLen(b))

\* a response with a body that holds a blank line was parsed: the bytes after the
\* first separator are counted
ResponseWithBodyParsed ==
  \E c \in StatusCodes, msg \in StatusMessages, hs \in HeaderLists :
    /\ ParsedResponse(c, msg, hs, <<"a", CR, LF, CR, LF, "b">>)
    /\ hmeta.body_length = 6

(***************************************************************************)
(* FTP control-channel messages: the 227 response and the PASS command.    *)
(***************************************************************************)

\* the decimal digit of d (0..9)
DigitAtom(d) == CHOOSE a \in Digits : DigitValue(a) = d

\* the decimal digits of a natural number
RECURSIVE DigitsOf(_)
DigitsOf(n) == IF n < 10 THEN <<DigitAtom(n)>> ELSE Append(DigitsOf(n \div 10), DigitAtom(n % 10))

\* the numbers h1, h2, h3, h4, p1, p2 of the passive-mode tuples explored
PasvTuples ==
  {<<h1, h2, 0, h4, p1, p2>> :
     h1 \in {10, 192}, h2 \in {0, 168}, h4 \in {7, 255}, p1 \in {0, 19, 255}, p2 \in {0, 2, 255}}

\* the text '(h1,h2,h3,h4,p1,p2)'
TupleText(g) ==
  <<"(">> \o DigitsOf(g[1]) \o <<",">> \o DigitsOf(g[2]) \o <<",">> \o DigitsOf(g[3]) \o <<",">>
    \o DigitsOf(g[4]) \o <<",">> \o DigitsOf(g[5]) \o <<",">> \o DigitsOf(g[6]) \o <<")">>

\* the texts before the tuple: the usual one, and a shorter one
PasvPrefixes ==
  {<<"Entering", SP, "Passive", SP, "Mode", SP>>, <<"Passive", SP>>}

\* a 227 response: '227 <prefix>(h1,h2,h3,h4,p1,p2)' CR LF, with or without a final dot
PasvResponseOf(prefix, g, dot) ==
  <<"2", "2", "7", SP>> \o prefix \o TupleText(g) \o (IF dot THEN <<".">> ELSE <<>>) \o <<CR, LF>>

PasvResponses == {PasvResponseOf(x, g, dot) : x \in PasvPrefixes, g \in PasvTuples, dot \in BOOLEAN}

\* the address 'h1.h2.h3.h4' as a string
Dotted(g) ==
  ToString(g[1]) \o "." \o ToString(g[2]) \o "." \o ToString(g[3]) \o "." \o ToString(g[4])

NoAddress == [ip |-> "none", port |-> 0]

\* faulty variant: the port taken as p1 + p2 * 256
PasvAddressLowFirst(response_line) ==
  LET g == SearchPasv(response_line, 1) IN
  IF g = <<>> THEN NoAddress ELSE [ip |-> Dotted(g), port |-> g[5] + g[6] * 256]

\* _handle_pasv_response: the address and port passed to _handle_data_connection, or
\* NoAddress when the pattern does not match
PasvAddress(response_line) ==
  LET g == SearchPasv(response_line, 1) IN
  IF g = <<>> THEN NoAddress ELSE [ip |-> Dotted(g), port |-> g[5] * 256 + g[6]]

\* `response_line = data.decode('utf-8', 'ignore').strip()` of the relay loop
ResponseLine(d) == Strip(DecodeText(d))

\* the passwords explored
Secrets == {<<"hunter2">>, <<"swordfish">>, <<"two", SP, "words">>}

\* the command 'PASS <secret>' CR LF, the verb in either case
PassCommandOf(verb, secret) == <<verb, SP>> \o secret \o <<CR, LF>>

PassCommands == {PassCommandOf(v, s) : v \in {"PASS", "pass"}, s \in Secrets}

\* parse_packet of the FTP handler is about to be called on a 227 response or a PASS
\* command
InitFtpMessages ==
  /\ ServerInit
  /\ TelnetIdle
  /\ RelayIdle
  /\ PacketIdle
  /\ HttpIdle
  /\ enabled = {"ftp", "dns"}
  /\ pause_by_default = FALSE
  /\ hproto = "ftp"
  /\ inspection_mode = "both"
  /\ hdir \in {C2S, S2C}
  /\ hdata \in PasvResponses \cup PassCommands
  /\ hpc = "call"
  /\ hmeta = EmptyMeta
  /\ hraised = "none"
  /\ hpacket = NoCapture
  /\ hparses = 0

SpecFtpMessages == InitFtpMessages /\ [][NextParse]_vars

\* the 227 response that was parsed as a response is PasvResponseOf(prefix, g, dot)
ParsedPasv(prefix, g, dot) ==
  hpc = "parsed" /\ hdir = S2C /\ hdata = PasvResponseOf(prefix, g, dot)

\* C23: for a well-formed 227 response with the tuple (h1,h2,h3,h4,p1,p2), parse_packet
\* returns passive_ip 'h1.h2.h3.h4' and passive_port p1 * 256 + p2, and the extraction
\* of the relay loop (_handle_pasv_response) gives the same address and port
C23_PassiveAddress ==
  \A x \in PasvPrefixes, g \in PasvTuples, dot \in BOOLEAN :
    ParsedPasv(x, g, dot) =>
      /\ Has(hmeta, "passive_ip", Dotted(g))
      /\ Has(hmeta, "passive_port", g[5] * 256 + g[6])
      /\ PasvAddress(ResponseLine(hdata)) = [ip |-> hmeta.passive_ip, port |-> hmeta.passive_port]

\* C23: the response with the tuple (192,168,0,255,19,2) was parsed: port 4866
C23_Witness ==
  /\ \E x \in PasvPrefixes, dot \in BOOLEAN : ParsedPasv(x, <<192, 168, 0, 255, 19, 2>>, dot)
  /\ Has(hmeta, "passive_ip", "192.168.0.255")
  /\ Has(hmeta, "passive_port", 4866)

\* the command that was parsed as a command is PassCommandOf(verb, secret)
ParsedPass(verb, secret) ==
  hpc = "parsed" /\ hdir = C2S /\ hdata = PassCommandOf(verb, secret)

\* the metadata fields whose values are texts of the command
TextFields == {"command", "argument", "username", "filename"}

\* some text field of the metadata holds the text s
HoldsText(m, s) ==
  \E k \in DOMAIN m \cap TextFields :
    \E i \in 1..Len(m[k]) : i + Len(s) - 1 <= Len(m[k]) /\ SubSeq(m[k], i, i + Len(s) - 1) = s

\* C24: the metadata of 'PASS <secret>' holds the secret in no field, and is the same
\* for every secret
C24_PassMasked ==
  \A v \in {"PASS", "pass"}, s \in Secrets :
    ParsedPass(v, s) =>
      /\ ~HoldsText(hmeta, s)
      /\ \A s2 \in Secrets : ParsePacket("ftp", PassCommandOf(v, s2), C2S).meta = hmeta

\* what the parser does: the password field is masked, the argument field holds the secret
PassArgumentKept ==
  \A v \in {"PASS", "pass"}, s \in Secrets :
    ParsedPass(v, s) =>
      /\ Has(hmeta, "command", <<"PASS">>)
      /\ Has(hmeta, "password", "********")
      /\ Has(hmeta, "argument", s)
      /\ DOMAIN hmeta = {"command", "argument", "password"}

\* a PASS command was parsed
PassParsed == \E v \in {"PASS", "pass"}, s \in Secrets : ParsedPass(v, s)

(***************************************************************************)
(* The relay loop of FTPProtocolHandler (_proxy_data), with the passive    *)
(* data connection.                                                        *)
(***************************************************************************)

\* the most reads of the control connection explored
MaxFtpReads == 2

\* a PORT command: 'PORT h1,h2,h3,h4,p1,p2' CR LF
PortCommandOf(g) ==
  <<"PORT", SP>> \o SubSeq(TupleText(g), 2, Len(TupleText(g)) - 1) \o <<CR, LF>>

\* `command_line = data.decode('utf-8', 'ignore').strip()` of the relay loop
CommandLine(d) == Strip(DecodeText(d))

\* `command_line.startswith('PORT ')`
StartsWithPort(command_line) ==
  Len(command_line) >= 2 /\ command_line[1] = "PORT" /\ command_line[2] = SP

\* faulty variant: the address of the command is connected to as the data connection
HandlePortCommandConnects(command_line, conn) ==
  [server_socket |-> "open", ip |-> "client", port |-> 0]

\* _handle_port_command(command_line): self.data_connection after the call; the address
\* and port matched are logged, nothing is assigned and no socket is made
HandlePortCommand(command_line, conn) == conn
\* the most chunks that wait unread on the data connection
MaxPending == 1

\* the text the relay loop looks for
PasvPhrase == <<"2", "2", "7", SP, "Entering", SP, "Passive", SP, "Mode">>

\* the passive-mode tuples of the sessions explored
SessionTuples == {<<10, 0, 0, 7, 19, 2>>, <<192, 168, 0, 255, 0, 21>>}

\* the commands a client sends
SessionCommands ==
  {<<"PASV", CR, LF>>, <<"RETR", SP, "file.txt", CR, LF>>}
    \cup {PortCommandOf(g) : g \in SessionTuples}

\* the responses a server sends: 227 with the usual text, 227 with another text, 227
\* with the usual text and no tuple, and another code
SessionResponses ==
  {PasvResponseOf(<<"Entering", SP, "Passive", SP, "Mode", SP>>, g, dot) :
     g \in SessionTuples, dot \in BOOLEAN}
    \cup {PasvResponseOf(<<"Passive", SP>>, <<10, 0, 0, 7, 19, 2>>, FALSE),
          PasvPhrase \o <<CR, LF>>,
          <<"2", "0", "0", SP, "OK", CR, LF>>}

\* the chunks a server sends on the data connection
DataChunks == {<<"file", SP, "contents">>}

\* faulty variant: no response is taken for a passive-mode response
IsPasvResponseNever(response_line) == FALSE

\* `'227 Entering Passive Mode' in response_line`
IsPasvResponse(response_line) ==
  \E i \in 1..Len(response_line) :
    /\ i + Len(PasvPhrase) - 1 <= Len(response_line)
    /\ SubSeq(response_line, i, i + Len(PasvPhrase) - 1) = PasvPhrase

\* the relay loop of a handler whose upstream connection is set up
InitFtp ==
  /\ ServerInit
  /\ enabled = {"ftp", "dns"}
  /\ TelnetIdle
  /\ CaptureIdle
  /\ PacketIdle
  /\ HttpIdle
  /\ DnsIdle
  /\ OtherIdle
  /\ fpc = "loop"
  /\ frunning = TRUE
  /\ freads = 0
  /\ fdata = <<>>
  /\ fdir = "none"
  /\ passive_mode = FALSE
  /\ data_connection = NoDataConnection
  /\ fconnects = <<>>
  /\ fdsocks = <<>>
  /\ fup = <<>>
  /\ fdown = <<>>
  /\ fpackets = <<>>
  /\ fpending = <<>>
  /\ ftodo = <<>>

\* what the FTP session actions leave alone
FtpFrame == UNCHANGED <<serverVars, poolVars, pause_by_default, sessVars, telnetVars,
                        captureVars, packetVars, httpVars, dnsVars, storeVars, scanVars>>

\* `while self.running:`
FtpLoopCheck ==
  /\ fpc = "loop"
  /\ fpc' = IF frunning THEN "select" ELSE "cleanup"
  /\ FtpFrame
  /\ UNCHANGED <<frunning, freads, fdata, fdir, passive_mode, data_connection, fconnects, fdsocks,
                 fup, fdown, fpackets, fpending, ftodo>>

\* select returns the readable sockets (none of them after 0.1 s without traffic)
FtpSelect ==
  /\ fpc = "select"
  /\ \E r \in ReadableLists \cup {<<>>} :
       /\ ftodo' = r
       /\ fpc' = IF r = <<>> THEN "data_check" ELSE "for"
  /\ FtpFrame
  /\ UNCHANGED <<frunning, freads, fdata, fdir, passive_mode, data_connection, fconnects, fdsocks,
                 fup, fdown, fpackets, fpending>>

\* `if exceptional: break`
FtpSelectExceptional ==
  /\ fpc = "select"
  /\ fpc' = "cleanup"
  /\ FtpFrame
  /\ UNCHANGED <<frunning, freads, fdata, fdir, passive_mode, data_connection, fconnects, fdsocks,
                 fup, fdown, fpackets, fpending, ftodo>>

\* the packet captured from a read of the control connection, as the session records
\* it: create_packet takes the peer address of the connected upstream socket and the
\* pause setting; the packet is logged and dropped
Capture(d, direction) ==
  [channel |-> "control", direction |-> direction, data |-> d,
   peer |-> GetPeerName("ftp").addr, paused |-> PausedAtCapture(pause_by_default)]

\* the client socket is readable: recv, create_packet and log_packet, the PORT command
\* logged, sendall to the server
FtpClientRead ==
  /\ fpc = "for"
  /\ ftodo # <<>> /\ Head(ftodo) = ClientSock
  /\ freads < MaxFtpReads
  /\ \E d \in SessionCommands :
       /\ fdata' = d
       /\ fpackets' = Append(fpackets, Capture(d, C2S))
       /\ data_connection' =
            IF StartsWithPort(CommandLine(d))
              THEN HandlePortCommand(CommandLine(d), data_connection)
              ELSE data_connection
       /\ fup' = Append(fup, d)
  /\ fdir' = C2S
  /\ freads' = freads + 1
  /\ ftodo' = Tail(ftodo)
  /\ fpc' = IF Tail(ftodo) = <<>> THEN "data_check" ELSE "for"
  /\ FtpFrame
  /\ UNCHANGED <<frunning, passive_mode, fconnects, fdsocks, fdown, fpending>>

\* the server socket is readable: recv, create_packet and log_packet; a response that
\* holds the passive-mode text goes to _handle_pasv_response, which on a match sets
\* passive_mode and calls _handle_data_connection (connect, and on success
\* self.data_connection = {...}; a failure is logged); then sendall to the client
FtpServerRead ==
  /\ fpc = "for"
  /\ ftodo # <<>> /\ Head(ftodo) = ServerSock
  /\ freads < MaxFtpReads
  /\ \E d \in SessionResponses, ok \in BOOLEAN :
       /\ fdata' = d
       /\ fpackets' = Append(fpackets, Capture(d, S2C))
       /\ \E a \in {PasvAddress(ResponseLine(d))} :
            IF IsPasvResponse(ResponseLine(d)) /\ a # NoAddress
              THEN /\ passive_mode' = TRUE
                   /\ fconnects' = Append(fconnects, [ip |-> a.ip, port |-> a.port, ok |-> ok])
                   /\ data_connection' =
                        IF ok THEN [server_socket |-> "open", ip |-> a.ip, port |-> a.port]
                        ELSE data_connection
                   /\ fdsocks' = IF ok THEN Append(fdsocks, "open") ELSE fdsocks
              ELSE /\ ok
                   /\ UNCHANGED <<passive_mode, fconnects, fdsocks, data_connection>>
       /\ fdown' = Append(fdown, d)
  /\ fdir' = S2C
  /\ freads' = freads + 1
  /\ ftodo' = Tail(ftodo)
  /\ fpc' = IF Tail(ftodo) = <<>> THEN "data_check" ELSE "for"
  /\ FtpFrame
  /\ UNCHANGED <<frunning, fup, fpending>>

\* recv returns b'' on either socket: self.running = False; break
FtpReadEOF ==
  /\ fpc = "for"
  /\ ftodo # <<>>
  /\ frunning' = FALSE
  /\ ftodo' = <<>>
  /\ fpc' = "data_check"
  /\ FtpFrame
  /\ UNCHANGED <<freads, fdata, fdir, passive_mode, data_connection, fconnects, fdsocks,
                 fup, fdown, fpackets, fpending>>

\* recv or sendall times out: except socket.timeout: continue
FtpReadTimeout ==
  /\ fpc = "for"
  /\ ftodo # <<>>
  /\ ftodo' = <<>>
  /\ fpc' = "loop"
  /\ FtpFrame
  /\ UNCHANGED <<frunning, freads, fdata, fdir, passive_mode, data_connection, fconnects, fdsocks,
                 fup, fdown, fpackets, fpending>>

\* recv or sendall raises: except ConnectionResetError / except Exception: break
FtpReadError ==
  /\ fpc = "for"
  /\ ftodo # <<>>
  /\ ftodo' = <<>>
  /\ fpc' = "cleanup"
  /\ FtpFrame
  /\ UNCHANGED <<frunning, freads, fdata, fdir, passive_mode, data_connection, fconnects, fdsocks,
                 fup, fdown, fpackets, fpending>>

\* the FTP server sends a chunk on the data connection the handler opened
FtpDataArrives ==
  /\ fpc \in {"loop", "select", "for", "data_check"}
  /\ data_connection.server_socket = "open"
  /\ Len(fpending) < MaxPending
  /\ \E d \in DataChunks : fpending' = Append(fpending, d)
  /\ FtpFrame
  /\ UNCHANGED <<fpc, frunning, freads, fdata, fdir, passive_mode, data_connection,
                 fconnects, fdsocks, fup, fdown, fpackets, ftodo>>

\* `if self.data_connection: pass` (the data connection handling is a TODO): the end
\* of one pass of the loop
FtpDataCheck ==
  /\ fpc = "data_check"
  /\ fpc' = "loop"
  /\ FtpFrame
  /\ UNCHANGED <<frunning, freads, fdata, fdir, passive_mode, data_connection, fconnects, fdsocks,
                 fup, fdown, fpackets, fpending, ftodo>>

\* _cleanup: the control sockets, then the server socket of the data connection, which
\* is the data socket connected last
FtpCleanup ==
  /\ fpc = "cleanup"
  /\ fpc' = "done"
  /\ frunning' = FALSE
  /\ data_connection' =
       IF data_connection.server_socket = "open"
         THEN [data_connection EXCEPT !.server_socket = "closed"] ELSE data_connection
  /\ fdsocks' =
       IF data_connection.server_socket = "open"
         THEN [fdsocks EXCEPT ![Len(fdsocks)] = "closed"] ELSE fdsocks
  /\ FtpFrame
  /\ UNCHANGED <<freads, fdata, fdir, passive_mode, fconnects, fup, fdown, fpackets,
                 fpending, ftodo>>

\* a data socket that self.data_connection no longer refers to (a later 227 response
\* replaced the record) is closed by its finalizer, if and when the interpreter
\* collects it; the handler makes no close() call on it
FtpCollect ==
  /\ fpc # "idle"
  /\ \E i \in 1..(Len(fdsocks) - 1) :
       /\ fdsocks[i] = "open"
       /\ fdsocks' = [fdsocks EXCEPT ![i] = "closed"]
  /\ FtpFrame
  /\ UNCHANGED <<fpc, frunning, freads, fdata, fdir, passive_mode, data_connection,
                 fconnects, fup, fdown, fpackets, fpending, ftodo>>

NextFtp ==
  \/ FtpLoopCheck
  \/ FtpSelect
  \/ FtpSelectExceptional
  \/ FtpClientRead
  \/ FtpServerRead
  \/ FtpReadEOF
  \/ FtpReadTimeout
  \/ FtpReadError
  \/ FtpDataArrives
  \/ FtpDataCheck
  \/ FtpCleanup
  \/ FtpCollect

SpecFtp == InitFtp /\ [][NextFtp]_vars

(***************************************************************************)
(* Properties of the FTP relay loop.                                       *)
(***************************************************************************)

\* this step is the read of the response '227 Entering Passive Mode (g)' from the server
ReadsPasv(g, dot) ==
  /\ freads' = freads + 1
  /\ fdir' = S2C
  /\ fdata' = PasvResponseOf(<<"Entering", SP, "Passive", SP, "Mode", SP>>, g, dot)

\* the step asks one new data socket to connect to the address of the tuple, sets
\* passive_mode, records the connection made as the data connection, and sends the
\* response read to the client
OpensDataChannel(g) ==
  /\ \E ok \in BOOLEAN :
       /\ fconnects' = Append(fconnects, [ip |-> Dotted(g), port |-> g[5] * 256 + g[6], ok |-> ok])
       /\ ok => data_connection' =
                  [server_socket |-> "open", ip |-> Dotted(g), port |-> g[5] * 256 + g[6]]
  /\ passive_mode'
  /\ fdown' = Append(fdown, fdata')

OtherResponsesOpenNothing ==
  [][(freads' = freads + 1 /\ fdir' = S2C
        /\ ~(IsPasvResponse(ResponseLine(fdata')) /\ PasvAddress(ResponseLine(fdata')) # NoAddress))
      => UNCHANGED <<passive_mode, data_connection, fconnects>>]_vars

\* this step is the end of a pass of the loop made while the data connection is open
\* and bytes wait on it
PassWithDataPending ==
  /\ fpc = "data_check" /\ fpc' = "loop"
  /\ data_connection.server_socket = "open"
  /\ fpending # <<>>

\* C26: the bytes that arrive on an open data connection are read by the loop, captured
\* as a packet of the data channel and forwarded
C26_DataChannelRelayed ==
  [][PassWithDataPending =>
       /\ fpending' = <<>>
       /\ \E i \in 1..Len(fpackets') : fpackets'[i].channel = "data"]_vars

\* the handler never reads the data connection: what arrives stays unread, and every
\* packet captured is a read of the control connection
DataChannelNeverRead ==
  /\ \A i \in 1..Len(fpackets) : fpackets[i].channel = "control"
  /\ Len(fpackets) = Len(fup) + Len(fdown)

\* bytes wait unread on the open data connection at the end of a pass
DataPendingAtEndOfPass ==
  /\ fpc = "loop"
  /\ data_connection.server_socket = "open"
  /\ fpending # <<>>
  /\ freads = MaxFtpReads

(***************************************************************************)
(* The relay loop of DNSProtocolHandler (_proxy_data).                     *)
(***************************************************************************)

\* the most datagrams forwarded to the resolver
MaxDatagrams == 2
\* the most receive timeouts on the client socket
MaxWaits == 2

\* the addresses datagrams come from
DnsClients == {"client_a", "client_b"}

\* the queries clients send, and the replies of the resolver (<<>>: none within 5 s)
DnsQueries == {d \in DnsSamples : Len(d) >= 12}
DnsReplies == {<<>>, DnsHeader(4660, 33152, 1, 1) \o <<1, 65, 1, 65, 0, 0, 28, 0, 1>>}

\* the relay loop of a handler whose upstream UDP socket was created
InitDns ==
  /\ ServerInit
  /\ enabled = {"ftp", "dns"}
  /\ TelnetIdle
  /\ CaptureIdle
  /\ PacketIdle
  /\ HttpIdle
  /\ FtpIdle
  /\ OtherIdle
  /\ dpc = "loop"
  /\ dmode \in InspectionModes
  /\ ddatagram = NoDatagram
  /\ dreply = "none"
  /\ dsent = <<>>
  /\ dback = <<>>
  /\ dwaits = 0

\* what the DNS relay actions leave alone
DnsFrame == UNCHANGED <<serverVars, poolVars, pause_by_default, sessVars, telnetVars,
                        captureVars, packetVars, httpVars, ftpVars, dmode, storeVars, scanVars>>

\* client_socket.recvfrom times out after 0.1 s: except socket.timeout: continue
DnsProxyTimeout ==
  /\ dpc = "loop"
  /\ dwaits < MaxWaits
  /\ dwaits' = dwaits + 1
  /\ DnsFrame
  /\ UNCHANGED <<dpc, ddatagram, dreply, dsent, dback>>

\* recvfrom returns no data: `if not data: break`
DnsProxyEmpty ==
  /\ dpc = "loop"
  /\ dpc' = "cleanup"
  /\ DnsFrame
  /\ UNCHANGED <<ddatagram, dreply, dsent, dback, dwaits>>

\* one pass of the loop for a datagram d from address a, the resolver answering with
\* reply (r: what create_packet does for the datagram and for the reply):
\* create_packet and log_packet, sendto the resolver, recvfrom with a 5 s
\* timeout (socket.timeout: continue), create_packet and log_packet of the reply,
\* sendto(response, client_addr); an exception of any step other than the timeout
\* ends the loop (except Exception: break)
DnsProxyDatagram ==
  /\ dpc = "loop"
  /\ Len(dsent) < MaxDatagrams
  /\ \E d \in DnsQueries, a \in DnsClients, reply \in DnsReplies :
       /\ ddatagram' = [n |-> ddatagram.n + 1, data |-> d, addr |-> a]
       /\ \E r \in {[dir \in {C2S, S2C} |->
                      create_packet("dns", dmode, pause_by_default,
                                    IF dir = C2S THEN d ELSE reply, dir)]} :
            IF r[C2S].raised # "none"
              THEN /\ reply = <<>>
                   /\ dpc' = "cleanup"
                   /\ dreply' = "none"
                   /\ UNCHANGED <<dsent, dback>>
              ELSE /\ dsent' = Append(dsent, d)
                   /\ IF reply = <<>>
                        THEN /\ dpc' = "loop"
                             /\ dreply' = "timeout"
                             /\ UNCHANGED dback
                        ELSE IF r[S2C].raised # "none"
                          THEN /\ dpc' = "cleanup"
                               /\ dreply' = "reply"
                               /\ UNCHANGED dback
                          ELSE /\ dpc' = "loop"
                               /\ dreply' = "reply"
                               /\ dback' = Append(dback, [addr |-> a, data |-> reply])
  /\ DnsFrame
  /\ UNCHANGED dwaits

\* handle_connection: finally: self._cleanup()
DnsProxyCleanup ==
  /\ dpc = "cleanup"
  /\ dpc' = "done"
  /\ DnsFrame
  /\ UNCHANGED <<ddatagram, dreply, dsent, dback, dwaits>>

NextDns ==
  \/ DnsProxyTimeout
  \/ DnsProxyEmpty
  \/ DnsProxyDatagram
  \/ DnsProxyCleanup

SpecDns == InitDns /\ [][NextDns]_vars

\* this step is the pass of the loop for a datagram received from a client
DatagramReceived == ddatagram'.n = ddatagram.n + 1

\* C27: each client datagram is forwarded to the resolver; the reply that arrives within
\* the timeout is sent to the address the datagram came from; without a reply nothing
\* is sent back; in both cases the loop goes on with the next datagram
C27_DatagramRelayed ==
  [][DatagramReceived =>
       /\ dsent' = Append(dsent, ddatagram'.data)
       /\ dpc' = "loop"
       /\ dreply' \in {"reply", "timeout"}
       /\ dreply' = "timeout" => dback' = dback
       /\ dreply' = "reply" =>
            /\ Len(dback') = Len(dback) + 1
            /\ dback'[Len(dback')].addr = ddatagram'.addr]_vars

\* what the loop does: the first datagram ends it, whatever the inspection mode, and
\* nothing is ever sent to the resolver or to a client
DatagramEndsRelay ==
  /\ dsent = <<>>
  /\ dback = <<>>
  /\ ddatagram.n <= 1
  /\ ddatagram.n = 1 => dpc \in {"cleanup", "done"}

\* a datagram was received and the handler has ended without forwarding it
DatagramDropped ==
  /\ ddatagram.n = 1
  /\ dpc = "done"
  /\ dsent = <<>>

(***************************************************************************)
(* DNS messages given to DNSProtocolHandler.parse_packet.                  *)
(***************************************************************************)

\* the 16-bit flag words
FlagWords == 0..(2 ^ 16 - 1)

\* 16-bit values that tell the byte order and the width apart
Words == {0, 1, 256, 4660, 2 ^ 16 - 1}

\* the two bytes of a 16-bit value, high byte first
BE(v) == <<v \div 256, v % 256>>

\* a 12-byte header
HeaderOf(id, flags, qdcount, ancount, nscount, arcount) ==
  BE(id) \o BE(flags) \o BE(qdcount) \o BE(ancount) \o BE(nscount) \o BE(arcount)

\* the headers explored: every flag word, and every choice of the other fields
DnsHeaders ==
  {HeaderOf(4660, f, 0, 0, 0, 0) : f \in FlagWords}
    \cup {HeaderOf(id, f, q, a, n, r) :
            id \in Words, f \in {256, 33152}, q \in {0, 1, 256}, a \in Words, n \in {0, 256},
            r \in {0, 1}}

\* labels: 'example', 'com', 'www', 'a'
Labels == {<<101, 120, 97, 109, 112, 108, 101>>, <<99, 111, 109>>, <<119, 119, 119>>, <<97>>}

\* the most labels of a name explored
MaxLabels == 2

\* names: lists of labels (the empty list is the root)
Names == SeqsUpTo(Labels, MaxLabels)

\* the standard encoding of a name: each label after its length, then a zero byte
RECURSIVE EncodeName(_)
EncodeName(name) ==
  IF name = <<>> THEN <<0>>
  ELSE <<Len(Head(name))>> \o Head(name) \o EncodeName(Tail(name))

\* the type and class codes explored: with a mnemonic and without
TypeCodes == {1, 2, 5, 6, 12, 15, 16, 28, 33, 255, 0, 3, 99, 256, 2 ^ 16 - 1}
ClassCodes == {1, 2, 3, 4, 255, 0, 9, 256}

\* a message with one question, in a query or in a response with one answer
QuestionOf(flags, ancount, name, qtype, qclass) ==
  HeaderOf(4660, flags, 1, ancount, 0, 0) \o EncodeName(name) \o BE(qtype) \o BE(qclass)

DnsQuestions ==
  {QuestionOf(256, 0, name, t, c) : name \in Names, t \in TypeCodes, c \in ClassCodes}
    \cup {QuestionOf(33152, 1, name, t, 1) \o <<192, 12, 0, 1, 0, 1>> :
            name \in Names, t \in {1, 99}}

\* inputs shorter than the header: every proper prefix of a query
ShortInputs ==
  {SubSeq(QuestionOf(256, 0, <<>>, 1, 1), 1, n) : n \in 0..11}

\* messages with the QR bit set come from the resolver, the others from the client
SenderOf(d) == IF Len(d) >= 3 /\ d[3] >= 128 THEN S2C ELSE C2S

\* parse_packet of the DNS handler is about to be called on a header, a message with a
\* question, or a short input
InitDnsMessages ==
  /\ ServerInit
  /\ TelnetIdle
  /\ RelayIdle
  /\ PacketIdle
  /\ HttpIdle
  /\ enabled = {"ftp", "dns"}
  /\ pause_by_default = FALSE
  /\ hproto = "dns"
  /\ inspection_mode = "both"
  /\ hdata \in DnsHeaders \cup DnsQuestions \cup ShortInputs
  /\ hdir = SenderOf(hdata)
  /\ hpc = "call"
  /\ hmeta = EmptyMeta
  /\ hraised = "none"
  /\ hpacket = NoCapture
  /\ hparses = 0

SpecDnsMessages == InitDnsMessages /\ [][NextParse]_vars

\* the 16-bit value whose high byte is hi and low byte is lo
Word(hi, lo) == hi * 256 + lo

\* the mnemonics of the opcodes and response codes that have one
OpcodeMnemonic ==
  (0 :> "QUERY") @@ (1 :> "IQUERY") @@ (2 :> "STATUS") @@ (3 :> "NOTIFY") @@ (4 :> "UPDATE")
RcodeMnemonic ==
  (0 :> "NOERROR") @@ (1 :> "FORMERR") @@ (2 :> "SERVFAIL") @@ (3 :> "NXDOMAIN")
    @@ (4 :> "NOTIMP") @@ (5 :> "REFUSED")

\* the header fields read off the bytes of the header: the flags are the third and
\* fourth byte, QR the top bit of the third
HeaderDecoded(m, d) ==
  /\ Has(m, "transaction_id", Word(d[1], d[2]))
  /\ Has(m, "query_count", Word(d[5], d[6]))
  /\ Has(m, "answer_count", Word(d[7], d[8]))
  /\ Has(m, "authority_count", Word(d[9], d[10]))
  /\ Has(m, "additional_count", Word(d[11], d[12]))
  /\ Has(m, "is_response", d[3] >= 128)
  /\ Has(m, "opcode", (d[3] % 128) \div 8)
  /\ Has(m, "authoritative", d[3] % 8 >= 4)
  /\ Has(m, "truncated", d[3] % 4 >= 2)
  /\ Has(m, "recursion_desired", d[3] % 2 = 1)
  /\ Has(m, "recursion_available", d[4] >= 128)
  /\ Has(m, "response_code", d[4] % 16)
  /\ m.opcode \in DOMAIN OpcodeMnemonic => Has(m, "opcode_name", OpcodeMnemonic[m.opcode])
  /\ m.response_code \in DOMAIN RcodeMnemonic =>
       Has(m, "response_code_name", RcodeMnemonic[m.response_code])

\* C28: for every 12-byte header parse_packet returns the id and the four counts as
\* big-endian 16-bit values and, for every flag word, QR = bit 15, opcode = bits 14..11,
\* AA = bit 10, TC = bit 9, RD = bit 8, RA = bit 7, RCODE = bits 3..0, with the
\* mnemonic names of the opcodes and response codes that have one
C28_HeaderDecoded ==
  (hpc = "parsed" /\ Len(hdata) = 12) => HeaderDecoded(hmeta, hdata)

\* C28: the header with the flag word 0xA983 (QR, opcode 5, RD, RA, RCODE 3) was parsed
C28_Witness ==
  /\ hpc = "parsed"
  /\ hdata = HeaderOf(4660, 43395, 0, 0, 0, 0)
  /\ hmeta.is_response /\ hmeta.opcode = 5 /\ ~hmeta.authoritative /\ ~hmeta.truncated
  /\ hmeta.recursion_desired /\ hmeta.recursion_available /\ hmeta.response_code = 3
  /\ hmeta.response_code_name = "NXDOMAIN"

\* the mnemonics of the query types and classes that have one
QtypeMnemonic ==
  (1 :> "A") @@ (2 :> "NS") @@ (5 :> "CNAME") @@ (6 :> "SOA") @@ (12 :> "PTR")
    @@ (15 :> "MX") @@ (16 :> "TXT") @@ (28 :> "AAAA") @@ (33 :> "SRV") @@ (255 :> "ANY")
QclassMnemonic ==
  (1 :> "IN") @@ (2 :> "CS") @@ (3 :> "CH") @@ (4 :> "HS") @@ (255 :> "ANY")

\* the labels of a name with a '.' (46) between them
RECURSIVE DottedName(_)
DottedName(name) ==
  IF name = <<>> THEN <<>>
  ELSE IF Tail(name) = <<>> THEN Head(name)
  ELSE Head(name) \o <<46>> \o DottedName(Tail(name))

\* the message parsed has one question, whose name is the standard encoding of `name`
\* followed by type and class
ParsedQuestion(name) ==
  /\ hpc = "parsed"
  /\ Len(hdata) >= 12 + Len(EncodeName(name)) + 4
  /\ Word(hdata[5], hdata[6]) = 1
  /\ SubSeq(hdata, 13, 12 + Len(EncodeName(name))) = EncodeName(name)

\* the 16-bit value at the bytes k and k + 1 of the message parsed
WordAt(k) == Word(hdata[k], hdata[k + 1])

\* C29: for a message with a question whose name is a list of length-prefixed labels
\* ended by a zero byte and followed by type and class, parse_packet sets query_name to
\* the labels joined with '.', and query_type and query_class to the mnemonic of a
\* known code and to 'TYPE<n>' and 'CLASS<n>' otherwise
C29_QuestionDecoded ==
  \A name \in Names :
    ParsedQuestion(name) =>
      LET t == WordAt(13 + Len(EncodeName(name)))
          c == WordAt(15 + Len(EncodeName(name)))
      IN /\ Has(hmeta, "query_name", DottedName(name))
         /\ Has(hmeta, "query_type",
                IF t \in DOMAIN QtypeMnemonic THEN QtypeMnemonic[t] ELSE "TYPE" \o ToString(t))
         /\ Has(hmeta, "query_class",
                IF c \in DOMAIN QclassMnemonic THEN QclassMnemonic[c] ELSE "CLASS" \o ToString(c))

\* C29: the question example.com, type 99, class IN was parsed: 'example.com', 'TYPE99', 'IN'
C29_Witness ==
  /\ ParsedQuestion(<<<<101, 120, 97, 109, 112, 108, 101>>, <<99, 111, 109>>>>)
  /\ hmeta.query_name = <<101, 120, 97, 109, 112, 108, 101, 46, 99, 111, 109>>
  /\ hmeta.query_type = "TYPE99"
  /\ hmeta.query_class = "IN"

\* C30: for an input shorter than the 12-byte header, the empty input included,
\* parse_packet raises nothing and returns metadata whose only field is 'error'
C30_ShortInputError ==
  (hpc # "call" /\ Len(hdata) < 12) =>
    /\ hpc = "parsed"
    /\ hraised = "none"
    /\ DOMAIN hmeta = {"error"}

\* C30: an 11-byte input was parsed: only the error field
C30_Witness ==
  /\ hpc = "parsed"
  /\ Len(hdata) = 11
  /\ DOMAIN hmeta = {"error"}

(***************************************************************************)
(* The data sockets of an FTP session at its end, and the PORT command.    *)
(***************************************************************************)

\* C35: after the cleanup of an FTP session every data socket connected during the
\* session is closed, however many 227 responses were received
C35_DataSocketsClosed ==
  fpc = "done" => \A i \in 1..Len(fdsocks) : fdsocks[i] = "closed"

\* what _cleanup does close: the data socket connected last
LastDataSocketClosed ==
  (fpc = "done" /\ fdsocks # <<>>) => fdsocks[Len(fdsocks)] = "closed"

\* a session ended after two 227 responses with the first data socket still open
FirstDataSocketLeftOpen ==
  /\ fpc = "done"
  /\ Len(fdsocks) = 2
  /\ fdsocks = <<"open", "closed">>

\* this step is the read of the command 'PORT h1,h2,h3,h4,p1,p2' from the client
ReadsPort(g) ==
  /\ freads' = freads + 1
  /\ fdir' = C2S
  /\ fdata' = PortCommandOf(g)

Banners == {<<"2", "2", "0", SP, "Welcome", CR, LF>>}

\* a handler just constructed: handle_connection is about to call _setup_server_connection
InitFtpSession ==
  /\ ServerInit
  /\ enabled = {"ftp", "dns"}
  /\ TelnetIdle
  /\ CaptureIdle
  /\ PacketIdle
  /\ HttpIdle
  /\ DnsIdle
  /\ OtherIdle
  /\ fpc = "connect"
  /\ frunning = TRUE
  /\ freads = 0
  /\ fdata = <<>>
  /\ fdir = "none"
  /\ passive_mode = FALSE
  /\ data_connection = NoDataConnection
  /\ fconnects = <<>>
  /\ fdsocks = <<>>
  /\ fup = <<>>
  /\ fdown = <<>>
  /\ fpackets = <<>>
  /\ fpending = <<>>
  /\ ftodo = <<>>

\* `self.server_socket.connect((self.target_host, self.target_port))`: an exception
\* leaves handle_connection through its finally clause
FtpSetupConnect ==
  /\ fpc = "connect"
  /\ \E ok \in BOOLEAN : fpc' = IF ok THEN "welcome" ELSE "cleanup"
  /\ FtpFrame
  /\ UNCHANGED <<frunning, freads, fdata, fdir, passive_mode, data_connection, fconnects, fdsocks,
                 fup, fdown, fpackets, fpending, ftodo>>

\* `welcome_data = self.server_socket.recv(self.buffer_size)`; `if welcome_data:`
FtpWelcomeRecv ==
  /\ fpc = "welcome"
  /\ \E d \in Banners \cup {<<>>} :
       /\ fdata' = d
       /\ fdir' = IF d = <<>> THEN fdir ELSE S2C
       /\ fpc' = IF d = <<>> THEN "loop" ELSE "welcome_send"
  /\ FtpFrame
  /\ UNCHANGED <<frunning, freads, passive_mode, data_connection, fconnects, fdsocks,
                 fup, fdown, fpackets, fpending, ftodo>>

\* `self.client_socket.sendall(welcome_data)`
FtpWelcomeSend ==
  /\ fpc = "welcome_send"
  /\ \E ok \in BOOLEAN :
       /\ fdown' = IF ok THEN Append(fdown, fdata) ELSE fdown
       /\ fpc' = IF ok THEN "welcome_log" ELSE "cleanup"
  /\ FtpFrame
  /\ UNCHANGED <<frunning, freads, fdata, fdir, passive_mode, data_connection, fconnects, fdsocks,
                 fup, fpackets, fpending, ftodo>>

\* `packet = self.create_packet(welcome_data, 'server_to_client')`; `self.log_packet(packet)`
FtpWelcomeLog ==
  /\ fpc = "welcome_log"
  /\ fpackets' = Append(fpackets, Capture(fdata, S2C))
  /\ fpc' = "loop"
  /\ FtpFrame
  /\ UNCHANGED <<frunning, freads, fdata, fdir, passive_mode, data_connection, fconnects, fdsocks,
                 fup, fdown, fpending, ftodo>>

NextFtpSession ==
  \/ FtpSetupConnect
  \/ FtpWelcomeRecv
  \/ FtpWelcomeSend
  \/ FtpWelcomeLog
  \/ NextFtp

SpecFtpSession == InitFtpSession /\ [][NextFtpSession]_vars

\* the data of the packets captured in one direction, in order
RECURSIVE CapturedData(_, _)
CapturedData(packets, direction) ==
  IF packets = <<>> THEN <<>>
  ELSE IF Head(packets).direction = direction
    THEN <<Head(packets).data>> \o CapturedData(Tail(packets), direction)
    ELSE CapturedData(Tail(packets), direction)

\* every chunk sent so far was captured as a packet of its direction
SentWereCaptured ==
  /\ IsPrefix(fup, CapturedData(fpackets, C2S))
  /\ IsPrefix(fdown, CapturedData(fpackets, S2C))

\* C32: every chunk a handler sends to a peer has been captured as a packet (created
\* and logged) before it is sent, in the relay loop and during the upstream setup
C32_CapturedBeforeSent == SentWereCaptured

\* what holds: the chunks read in the relay loop are captured before they are sent; the
\* welcome message is captured after it was sent
CapturedExceptWelcome == fpc # "welcome_log" => SentWereCaptured

\* the welcome message has been sent to the client and no packet holds it
WelcomeSentUncaptured ==
  /\ fpc = "welcome_log"
  /\ fdown = <<fdata>>
  /\ fdata \in Banners
  /\ fpackets = <<>>

(***************************************************************************)
(* Relay transparency of the HTTP relay loop and of the Telnet tokenizer.  *)
(***************************************************************************)

\* the client bytes the handler has read that are to go upstream: all of them in a
\* plain session, those after the CONNECT request in a tunnel
ReadForUpstream ==
  IF PlainSession THEN SubSeq(xreq, 1, xoff)
  ELSE SubSeq(xreq, Len(initial_request) + 1, xoff)

\* C33: the bytes sent to the destination are at all times a prefix of the bytes read
\* from the source in that direction, in order and unmodified: every chunk read is
\* sent in full before the next read
C33_SentIsPrefixOfRead ==
  initial_request # Unset => IsPrefix(up_sent, ReadForUpstream)

\* the same, for the sessions in which no sendall of the relay loop timed out
SentIsPrefixOfReadWithoutTimeout ==
  (initial_request # Unset /\ ~xlost) => IsPrefix(up_sent, ReadForUpstream)

\* a chunk was dropped by a sendall that timed out and a later chunk was sent
LaterChunkSentAfterLoss ==
  /\ xlost
  /\ initial_request # Unset
  /\ ~IsPrefix(up_sent, ReadForUpstream)

\* the Telnet part of C33: on every call of _process_telnet_commands the bytes emitted
\* followed by the remainder are the previous remainder followed by the bytes read
EmittedAndRemainderConserved ==
  [][treads' = treads + 1 => temit'[treads'] \o tbuf' = tbuf \o Chunk(treads')]_vars

(***************************************************************************)
(* What becomes of an accepted connection.                                 *)
(***************************************************************************)

\* the connection is, or is about to be, the work of a handler task: the listener
\* holds it before submit, it waits on the executor's queue, or its handler runs
InHandlerPath(c) == pc[c] \notin {"none", "unsubmitted", "done"}

\* C34: every accepted connection is either run by one handler task, whose cleanup
\* closes the client socket, or has its client socket closed by the listener: no
\* accepted client socket stays open without a handler, also when the submission to
\* the worker pool races with shutdown()
C34_AcceptedHandledOrClosed ==
  \A c \in Conns : csock[c] = "open" => InHandlerPath(c)

\* the same for the connections whose submission the executor accepted: a handler
\* that has ended has closed the client socket, once
SubmittedHandledAndClosed ==
  \A c \in Conns :
    /\ pc[c] = "done" => (csock[c] = "closed" /\ cleanups[c] = 1)
    /\ (csock[c] = "open" /\ pc[c] # "unsubmitted") => InHandlerPath(c)

\* submit() raised after shutdown(): the connection was accepted, no handler runs it
\* and its client socket is open
AcceptedLeftOpen ==
  \E c \in Conns :
    /\ pc[c] = "unsubmitted"
    /\ csock[c] = "open"
    /\ mainpc = "stopped"
    /\ c \notin active

(***************************************************************************)
(* The Telnet tokenizer against the parser's re-scan of what it emits.     *)
(***************************************************************************)

\* the description the parser gives a subnegotiation whose IAC SE it does not find
IsIncomplete(command) ==
  /\ Len(command) >= 12
  /\ SubSeq(command, Len(command) - 11, Len(command)) = "[incomplete]"

\* the parser's scan of the chunk reports an incomplete subnegotiation
FindsIncomplete(d) ==
  LET commands == TelnetCommands(d, 0, <<>>) IN
  \E k \in 1..Len(commands) : IsIncomplete(commands[k])

\* C39: in every chunk that _process_telnet_commands emits the parser's re-scan finds
\* no incomplete subnegotiation: the tokenizer and the parser agree on where each
\* subnegotiation ends, also for IAC SB IAC SE
C39_EmittedHasNoIncompleteSubneg ==
  \A k \in 1..Len(temit) : ~FindsIncomplete(temit[k])

\* the same for the streams without a subnegotiation that lacks its option byte
EmittedCompleteWithOptionByte ==
  (\A k \in 1..(Len(tstream) - 2) :
      ~(tstream[k] = IAC /\ tstream[k + 1] = SB /\ tstream[k + 2] = IAC))
    => \A k \in 1..Len(temit) : ~FindsIncomplete(temit[k])

\* the tokenizer emitted IAC SB IAC SE whole and the parser calls it incomplete
EmptySubnegEmitted ==
  /\ treads >= 1
  /\ temit[1] = <<IAC, SB, IAC, SE>>
  /\ FindsIncomplete(temit[1])

(***************************************************************************)
(* parse_packet of the DNS handler on responses that carry answers.        *)
(***************************************************************************)

\* the data parsed is a DNS message with QR = 1 and an answer count above 0
ParsedResponseWithAnswers ==
  /\ hproto = "dns"
  /\ hpc = "parsed"
  /\ Len(hdata) >= 12
  /\ Bits(U16(hdata, 2), 15, 1) = 1
  /\ U16(hdata, 6) > 0

\* min(ancount, 10)
AnswersCap(d) == IF U16(d, 6) < 10 THEN U16(d, 6) ELSE 10

\* C38: for every DNS response (QR = 1) with an answer count above 0, parse_packet
\* records answers_parsed = min(answer count, 10) and decodes no answer record, the
\* names of the question section being skipped with a label-length byte whose top two
\* bits are set ending the name
C38_AnswersCounted ==
  ParsedResponseWithAnswers =>
    /\ Has(hmeta, "answers_parsed", AnswersCap(hdata))
    /\ Has(hmeta, "answers", <<>>)

\* what holds: the count is recorded when the walk of the first question's name, which
\* takes every non-zero length byte for a label length, stays inside the data
AnswersCountedAfterNameWalk ==
  (ParsedResponseWithAnswers /\ "parse_error" \notin DOMAIN hmeta) =>
    /\ Has(hmeta, "answers_parsed", AnswersCap(hdata))
    /\ Has(hmeta, "answers", <<>>)

\* a response with 12 answers whose question was walked: the count is capped at 10
AnswersCapped ==
  /\ ParsedResponseWithAnswers
  /\ U16(hdata, 6) = 12
  /\ U16(hdata, 4) = 1
  /\ Has(hmeta, "answers_parsed", 10)

\* a response whose first question is a compression pointer: the parse failed and no
\* count was recorded
PointerQuestionFails ==
  /\ ParsedResponseWithAnswers
  /\ hdata = DnsHeader(4660, 33152, 1, 1) \o <<192, 12, 0, 1, 0, 1>>
  /\ "parse_error" \in DOMAIN hmeta
  /\ "answers_parsed" \notin DOMAIN hmeta

(***************************************************************************)
(* The replies of the DNS relay.                                           *)
(***************************************************************************)

\* no reply of the resolver is ever sent to a client: create_packet raises on the first
\* datagram, before the sendto to the resolver, and the loop ends
NoReplyDelivered == dback = <<>> /\ dsent = <<>>

(***************************************************************************)
(* proxy.packet.Packet: to_dict, save and load.  A Python value is a       *)
(* record of its type and its content; a JSON value is a record of its     *)
(* kind and its content.                                                   *)
(***************************************************************************)

\* the directory packets are saved to
StorageDir == "captures"

\* the values a handler or a user puts in the metadata of a packet
MetaValues ==
  { [type |-> "str", value |-> <<71, 69, 84>>],
    [type |-> "int", value |-> <<3>>],
    [type |-> "bool", value |-> <<1>>],
    [type |-> "NoneType", value |-> <<>>],
    [type |-> "list", value |-> <<1, 2>>],
    [type |-> "tuple", value |-> <<1, 2>>],
    [type |-> "bytes", value |-> <<65>>] }

\* the metadata mappings explored: empty, one field, two fields
Metadatas ==
  {EmptyMeta} \cup {Put(EmptyMeta, "method", v) : v \in MetaValues}
    \cup {Put(Put(EmptyMeta, "method", v), "flags", [type |-> "list", value |-> <<1, 2>>]) :
            v \in MetaValues}

\* the types json.load gives back as they went in
JsonTypes == {"str", "int", "float", "bool", "NoneType", "list"}

\* the mapping is made of values of the JSON types
JsonRepresentable(m) == \A k \in DOMAIN m : m[k].type \in JsonTypes

\* json.dump accepts the mapping: a tuple is written as an array, bytes are refused
JsonSerializable(m) == \A k \in DOMAIN m : m[k].type \in JsonTypes \cup {"tuple"}

\* json.dump of one value: the JSON value written
JsonDump(x) ==
  CASE x.type = "str" -> [kind |-> "string", value |-> x.value]
    [] x.type = "int" -> [kind |-> "integer", value |-> x.value]
    [] x.type = "float" -> [kind |-> "real", value |-> x.value]
    [] x.type = "bool" -> [kind |-> IF x.value = <<1>> THEN "true" ELSE "false", value |-> <<>>]
    [] x.type = "NoneType" -> [kind |-> "null", value |-> <<>>]
    [] x.type \in {"list", "tuple"} -> [kind |-> "array", value |-> x.value]

\* json.load of one value: the Python value read
JsonLoad(y) ==
  CASE y.kind = "string" -> [type |-> "str", value |-> y.value]
    [] y.kind = "integer" -> [type |-> "int", value |-> y.value]
    [] y.kind = "real" -> [type |-> "float", value |-> y.value]
    [] y.kind = "true" -> [type |-> "bool", value |-> <<1>>]
    [] y.kind = "false" -> [type |-> "bool", value |-> <<0>>]
    [] y.kind = "null" -> [type |-> "NoneType", value |-> <<>>]
    [] y.kind = "array" -> [type |-> "list", value |-> y.value]

\* True / False as Python values
PyBoolean(b) == [type |-> "bool", value |-> IF b THEN <<1>> ELSE <<0>>]

\* tuple(x) of a list or a tuple
PyTuple(x) == [type |-> "tuple", value |-> x.value]

\* self.data.hex() as a Python value
BytesHex(d) == [type |-> "str", value |-> Hex(d)]

\* no load() call yet
NotLoaded == [loaded |-> "no call"]

\* Packet.__init__ followed by the assignment of the identity the harness gives the
\* packet (uuid4 and time.time() are the environment's) and of its metadata
StoredPacket(id, timestamp, d, source, destination, protocol, direction, metadata) ==
  [id |-> id, timestamp |-> timestamp, data |-> d, source |-> source,
   destination |-> destination, protocol |-> protocol, direction |-> direction,
   paused |-> FALSE, modified |-> FALSE, metadata |-> metadata]

\* Packet.to_dict
to_dict(p) ==
  [id |-> p.id, timestamp |-> p.timestamp, source |-> p.source,
   destination |-> p.destination, protocol |-> p.protocol, direction |-> p.direction,
   data_hex |-> BytesHex(p.data.value),
   data_length |-> [type |-> "int", value |-> <<Len(p.data.value)>>],
   paused |-> PyBoolean(p.paused), modified |-> PyBoolean(p.modified),
   metadata |-> p.metadata]

\* json.dump(self.to_dict(), f): the document written
DumpPacket(p) ==
  LET d == to_dict(p) IN
  [id |-> JsonDump(d.id), timestamp |-> JsonDump(d.timestamp), source |-> JsonDump(d.source),
   destination |-> JsonDump(d.destination), protocol |-> JsonDump(d.protocol),
   direction |-> JsonDump(d.direction), data_hex |-> JsonDump(d.data_hex),
   data_length |-> JsonDump(d.data_length), paused |-> JsonDump(d.paused),
   modified |-> JsonDump(d.modified),
   metadata |-> [k \in DOMAIN d.metadata |-> JsonDump(d.metadata[k])]]

\* f"{int(self.timestamp)}_{self.protocol}_{self.id}.packet" under storage_path
PacketPath(p, storage_path) ==
  <<storage_path, p.timestamp.value[1], p.protocol.value, p.id.value>>

\* save() returned None
SavedNone == <<"None">>

\* load() returned None
LoadedNone == [loaded |-> "None"]

\* the '.json' file that json.dump left when it raised: opened, not a document
Partial == [partial |-> TRUE]

\* Packet.save(storage_path): the two kinds of files after the call and the value
\* returned; json.dump raises TypeError on a value it cannot write, and the
\* `except Exception` returns None with the '.bin' file not written
save(p, storage_path, json, bin) ==
  LET full_path == PacketPath(p, storage_path) IN
  IF JsonSerializable(p.metadata)
    THEN [json |-> (full_path :> DumpPacket(p)) @@ json,
          bin |-> (full_path :> p.data.value) @@ bin,
          ret |-> full_path]
    ELSE [json |-> (full_path :> Partial) @@ json, bin |-> bin, ret |-> SavedNone]

\* faulty variant: the flags are those of a packet just constructed
loadFresh(packet_path, json, bin) ==
  IF packet_path \notin DOMAIN json \/ packet_path \notin DOMAIN bin THEN LoadedNone
  ELSE IF "partial" \in DOMAIN json[packet_path] THEN LoadedNone
  ELSE LET metadata == json[packet_path] IN
    [id |-> JsonLoad(metadata.id), timestamp |-> JsonLoad(metadata.timestamp),
     data |-> [type |-> "bytes", value |-> bin[packet_path]],
     source |-> PyTuple(JsonLoad(metadata.source)),
     destination |-> PyTuple(JsonLoad(metadata.destination)),
     protocol |-> JsonLoad(metadata.protocol), direction |-> JsonLoad(metadata.direction),
     paused |-> FALSE, modified |-> FALSE,
     metadata |-> [k \in DOMAIN metadata.metadata |-> JsonLoad(metadata.metadata[k])]]

\* Packet.load(packet_path): the packet returned, or None when a file is missing or
\* is not a document (`except Exception: return None`)
load(packet_path, json, bin) ==
  IF packet_path \notin DOMAIN json \/ packet_path \notin DOMAIN bin THEN LoadedNone
  ELSE IF "partial" \in DOMAIN json[packet_path] THEN LoadedNone
  ELSE LET metadata == json[packet_path] IN
    [id |-> JsonLoad(metadata.id), timestamp |-> JsonLoad(metadata.timestamp),
     data |-> [type |-> "bytes", value |-> bin[packet_path]],
     source |-> PyTuple(JsonLoad(metadata.source)),
     destination |-> PyTuple(JsonLoad(metadata.destination)),
     protocol |-> JsonLoad(metadata.protocol), direction |-> JsonLoad(metadata.direction),
     paused |-> JsonLoad(metadata.paused).value = <<1>>,
     modified |-> JsonLoad(metadata.modified).value = <<1>>,
     metadata |-> [k \in DOMAIN metadata.metadata |-> JsonLoad(metadata.metadata[k])]]

\* the identities and capture times the environment gives a packet
PacketIds == {"6f1c", "a2b0"}
Timestamps == {<<1793834666, 25>>}

\* a packet was constructed from captured bytes and given its metadata; nothing is stored
InitStore ==
  /\ ServerInit
  /\ TelnetIdle
  /\ CaptureIdle
  /\ PacketIdle
  /\ HttpIdle
  /\ FtpIdle
  /\ DnsIdle
  /\ ScanIdle
  /\ enabled = {"http"}
  /\ pause_by_default = FALSE
  /\ \E id \in PacketIds, ts \in Timestamps, d \in BytesValues, direction \in {C2S, S2C},
        m \in Metadatas :
       spacket = StoredPacket([type |-> "str", value |-> id], [type |-> "float", value |-> ts],
                              d, [type |-> "tuple", value |-> <<"10.0.0.7", 4866>>],
                              [type |-> "tuple", value |-> <<"192.168.0.255", 80>>],
                              [type |-> "str", value |-> "http"],
                              [type |-> "str", value |-> direction], m)
  /\ sjson = <<>>
  /\ sbin = <<>>
  /\ spath = <<>>
  /\ sloaded = NotLoaded

\* what the persistence actions leave alone
StoreFrame == UNCHANGED <<serverVars, poolVars, pause_by_default, sessVars, telnetVars,
                          captureVars, packetVars, httpVars, ftpVars, dnsVars, scanVars>>

\* packet.set_pause(paused)
StoreSetPause ==
  /\ \E paused \in BOOLEAN : spacket' = set_pause(spacket, paused).packet
  /\ StoreFrame
  /\ UNCHANGED <<sjson, sbin, spath, sloaded>>

\* packet.modify_data(new_data)
StoreModifyData ==
  /\ \E new_data \in {[type |-> "bytes", value |-> <<0, 255>>]} :
       spacket' = modify_data(spacket, new_data).packet
  /\ StoreFrame
  /\ UNCHANGED <<sjson, sbin, spath, sloaded>>

\* path = packet.save(storage_path)
Save ==
  /\ \E r \in {save(spacket, StorageDir, sjson, sbin)} :
       /\ sjson' = r.json
       /\ sbin' = r.bin
       /\ spath' = r.ret
  /\ StoreFrame
  /\ UNCHANGED <<spacket, sloaded>>

\* Packet.load(path) with the value the last save returned
Load ==
  /\ spath # <<>>
  /\ sloaded' = load(spath, sjson, sbin)
  /\ StoreFrame
  /\ UNCHANGED <<spacket, sjson, sbin, spath>>

NextStore ==
  \/ StoreSetPause
  \/ StoreModifyData
  \/ Save
  \/ Load

SpecStore == InitStore /\ [][NextStore]_vars

\* the files under the path returned are those save writes for the packet as it is
\* now: the packet has not changed since p.save(path)
SavedAsIs ==
  /\ JsonSerializable(spacket.metadata)
  /\ spath = PacketPath(spacket, StorageDir)
  /\ spath \in DOMAIN sjson /\ sjson[spath] = DumpPacket(spacket)
  /\ spath \in DOMAIN sbin /\ sbin[spath] = spacket.data.value

\* C31: for every packet p whose metadata is a string-keyed mapping of values of the
\* JSON types, Packet.load(p.save(path)) has the id, timestamp, data, source,
\* destination, protocol, direction, paused, modified and metadata of p
C31_LoadOfSaveIsPacket ==
  (SavedAsIs /\ JsonRepresentable(spacket.metadata)) => load(spath, sjson, sbin) = spacket

\* C31: a paused and modified packet with two metadata fields was saved and loaded,
\* and what load returned is the packet
C31_Witness ==
  /\ SavedAsIs
  /\ JsonRepresentable(spacket.metadata)
  /\ spacket.paused /\ spacket.modified
  /\ DOMAIN spacket.metadata = {"method", "flags"}
  /\ sloaded = spacket

\* a tuple in the metadata comes back as a list, and bytes in the metadata make save
\* return None
OutsideJsonTypes ==
  /\ (SavedAsIs /\ ~JsonRepresentable(spacket.metadata)) => load(spath, sjson, sbin) # spacket
  /\ ~JsonSerializable(spacket.metadata) => spath \in {<<>>, SavedNone}

(***************************************************************************)
(* The scanning loops, one iteration per step: the while loops of          *)
(* _process_telnet_commands and of the Telnet parse_packet, their inner    *)
(* search for IAC SE, and the two name loops of the DNS parse_packet.      *)
(* Indexes are 0-based as in the code.                                     *)
(***************************************************************************)

\* the longest byte string scanned (for DNS: after the 12-byte header)
MaxScanData == 3
\* no loop is followed for more iterations than this
MaxScanSteps == 20

ScanLoops == {"tokenizer", "parser", "find_se", "name_walk", "name_skip"}

\* the byte strings given to each loop
ScanInputs(loop) ==
  IF loop \in {"name_walk", "name_skip"}
    THEN {DnsHeader(4660, 33152, 1, 1) \o b : b \in SeqsUpTo({0, 1, 2, 65, 192}, MaxScanData)}
    ELSE SeqsUpTo(TelnetBytes, MaxScanData + 1)

\* the index each loop starts from: i = 0, offset = 12, and for the search of IAC SE
\* any j its callers may pass (i + 2, i + 3)
ScanStarts(loop, d) ==
  CASE loop \in {"tokenizer", "parser"} -> {0}
    [] loop = "find_se" -> 2..(Len(d) + 1)
    [] loop \in {"name_walk", "name_skip"} -> {12}

\* the condition of each while
ScanCondition(loop, d, i) ==
  CASE loop \in {"tokenizer", "parser"} -> i < Len(d)
    [] loop = "find_se" -> i < Len(d) - 1
    [] loop = "name_walk" -> TRUE
    [] loop = "name_skip" -> i < Len(d)

\* one iteration of the while of _process_telnet_commands from index i: the next
\* index, and whether the function returned
TokenizerStep(buffer, i) ==
  IF Byte(buffer, i) # IAC \/ i >= Len(buffer) - 1
    THEN [index |-> i + 1, done |-> FALSE]
  ELSE IF Byte(buffer, i + 1) \in {DO, DONT, WILL, WONT} /\ i < Len(buffer) - 2
    THEN [index |-> i + 3, done |-> FALSE]
  ELSE IF Byte(buffer, i + 1) = SB
    THEN LET j == ParseFindSE(buffer, i + 2) IN
         IF j < Len(buffer) - 1 THEN [index |-> j + 2, done |-> FALSE]
         ELSE [index |-> i, done |-> TRUE]
  ELSE [index |-> i + 2, done |-> FALSE]

\* one iteration of the while of the Telnet parse_packet from index i
ParserStep(d, i) ==
  IF Byte(d, i) = IAC /\ i < Len(d) - 1
    THEN IF Byte(d, i + 1) \in {DO, DONT, WILL, WONT} /\ i < Len(d) - 2
           THEN [index |-> i + 3, done |-> FALSE]
         ELSE IF Byte(d, i + 1) = SB /\ i < Len(d) - 2
           THEN LET j == ParseFindSE(d, i + 3) IN
                IF j < Len(d) - 1 THEN [index |-> j + 2, done |-> FALSE]
                ELSE [index |-> Len(d), done |-> FALSE]
         ELSE [index |-> i + 2, done |-> FALSE]
    ELSE [index |-> i + 1, done |-> FALSE]

\* faulty variant: the search does not move on from a byte that is not IAC SE
FindSEStepStuck(d, j) ==
  IF Byte(d, j) = IAC /\ Byte(d, j + 1) = SE THEN [index |-> j, done |-> TRUE]
  ELSE [index |-> j, done |-> FALSE]

\* one iteration of `while j < len(data) - 1`: break at IAC SE, else j += 1
FindSEStep(d, j) ==
  IF Byte(d, j) = IAC /\ Byte(d, j + 1) = SE THEN [index |-> j, done |-> TRUE]
  ELSE [index |-> j + 1, done |-> FALSE]

\* one iteration of the `while True` that reads the query name: data[offset] raises
\* IndexError past the end, a zero length breaks, a label moves the offset past it
NameWalkStep(d, offset) ==
  IF offset >= Len(d) THEN [index |-> offset, done |-> TRUE]
  ELSE IF Byte(d, offset) = 0 THEN [index |-> offset + 1, done |-> TRUE]
  ELSE [index |-> offset + 1 + Byte(d, offset), done |-> FALSE]

\* one iteration of the `while offset < len(data)` that skips a question name: a zero
\* length breaks, a length with the top two bits set skips one more byte and breaks
NameSkipStep(d, offset) ==
  IF Byte(d, offset) = 0 THEN [index |-> offset + 1, done |-> TRUE]
  ELSE IF Byte(d, offset) \div 64 = 3 THEN [index |-> offset + 2, done |-> TRUE]
  ELSE [index |-> offset + 1 + Byte(d, offset), done |-> FALSE]

\* one iteration of a loop
ScanStep(loop, d, i) ==
  CASE loop = "tokenizer" -> TokenizerStep(d, i)
    [] loop = "parser" -> ParserStep(d, i)
    [] loop = "find_se" -> FindSEStep(d, i)
    [] loop = "name_walk" -> NameWalkStep(d, i)
    [] loop = "name_skip" -> NameSkipStep(d, i)

\* some loop is about to run on some bytes
InitScan ==
  /\ ServerInit
  /\ TelnetIdle
  /\ CaptureIdle
  /\ PacketIdle
  /\ HttpIdle
  /\ FtpIdle
  /\ DnsIdle
  /\ StoreIdle
  /\ enabled = {"telnet"}
  /\ pause_by_default = FALSE
  /\ zloop \in ScanLoops
  /\ zdata \in ScanInputs(zloop)
  /\ zindex \in ScanStarts(zloop, zdata)
  /\ zdone = FALSE
  /\ zsteps = 0

\* what the scanning actions leave alone
ScanFrame == UNCHANGED <<serverVars, poolVars, pause_by_default, sessVars, telnetVars,
                         captureVars, packetVars, httpVars, ftpVars, dnsVars, storeVars>>

\* the condition of the while holds: one iteration
ScanIterate ==
  /\ zloop # "none"
  /\ ~zdone
  /\ zsteps < MaxScanSteps
  /\ ScanCondition(zloop, zdata, zindex)
  /\ \E r \in {ScanStep(zloop, zdata, zindex)} :
       /\ zindex' = r.index
       /\ zdone' = r.done
  /\ zsteps' = zsteps + 1
  /\ ScanFrame
  /\ UNCHANGED <<zloop, zdata>>

\* the condition of the while fails: the loop is left
ScanExit ==
  /\ zloop # "none"
  /\ ~zdone
  /\ ~ScanCondition(zloop, zdata, zindex)
  /\ zdone' = TRUE
  /\ ScanFrame
  /\ UNCHANGED <<zloop, zdata, zindex, zsteps>>

NextScan ==
  \/ ScanIterate
  \/ ScanExit

SpecScan == InitScan /\ [][NextScan]_vars

\* an iteration moves the scan index forward or leaves the loop
IterationAdvances == zsteps' = zsteps + 1 => (zindex' > zindex \/ zdone')

\* a loop makes no more iterations than the bytes it scans, and one to leave
IterationsBounded == zsteps <= Len(zdata) + 1

\* C40: the scanning loops terminate on every finite input: each iteration of
\* _process_telnet_commands, of the Telnet parse_packet scan, of their search for
\* IAC SE and of the DNS name loops strictly advances the scan index or returns
C40_ScanTerminates == []IterationsBounded /\ [][IterationAdvances]_vars

\* C40: the name walk met a label length beyond the data, moved past the end in one
\* iteration and left by IndexError in the next
C40_Witness ==
  /\ zdone
  /\ zloop = "name_walk"
  /\ zdata = DnsHeader(4660, 33152, 1, 1) \o <<192, 0>>
  /\ zindex = 205
  /\ zsteps = 2

\* the tokenizer returned on an unterminated subnegotiation after a trailing IAC
TokenizerReturnedOnOpenSubneg ==
  /\ zdone
  /\ zloop = "tokenizer"
  /\ zdata = <<65, IAC, SB, IAC>>
  /\ zindex = 1
  /\ zsteps = 2

====
